---- MODULE Spec2Model ----
(***************************************************************************)
(* Model of the martingale-flip trading bot: the fill-based state          *)
(* reconstructor (src/src/position_tracker.py), the sizing engine          *)
(* (src/src/calc_engine.py) and the cycle orchestrator (src/src/main.py).  *)
(*                                                                         *)
(* Numbers.  Python floats are modelled exactly: quantities are integers   *)
(* counted in lots of 0.001 contract (so the tolerance 0.001 of the source *)
(* is 1 and a quantity written 10 is ten lots), prices and fees are        *)
(* integers, and every quotient the code forms is kept as a reduced        *)
(* fraction <<n, d>>.  Binary rounding error of floating point is not      *)
(* modelled.                                                               *)
(***************************************************************************)
EXTENDS Integers, Sequences, FiniteSets, TLC

VARIABLES
    fills,      \* the exchange's fill history of the symbol, oldest first
    derived,    \* the last value returned by analyze_position_state
    analysed,   \* TRUE when `derived` was computed from the current `fills`
    repeated,   \* TRUE when the current `fills` were analysed more than once
    cfg,        \* the strategy configuration the calculator was built with
    call,       \* the last call of calculate_next_position and its result
    sizes,      \* the sizes of one progression: each result fed back
    quote,      \* the last range and order prices computed for a position
    trail,      \* a position followed by the trailing exit, and its last answer
    fetch,      \* one call of fetch_all_fills: the exchange's trades, the
                \* pagination loop's variables, the list returned
    exch,       \* the exchange: the two legs, the open orders, the last price
    balance,    \* the available balance of the account, in USD
    active_coin,        \* TradingBot.active_coin: "none" or the symbol
    current_flip_count, \* the flip count the monitoring loop carries
    pc,         \* where the run loop stands: "cycle", "watch_start", "watch",
                \* "poll"
    placed,     \* the last placement of a trigger-level order, for the claims
    parked,     \* the book of the other instrument, with its fills
    stream,     \* the position stream: "closed", "open", "failed"
    polling,    \* TRUE while the polling fallback runs
    did,        \* the handler that ran last and the fault of its step
    faults      \* the number of calls of the exchange that failed so far

trackerVars == <<fills, derived, analysed, repeated>>
sizingVars  == <<cfg, call, sizes>>

rangeVars   == <<quote, trail, fetch>>
orchVars    == <<exch, balance, active_coin, current_flip_count, pc, placed,
                 parked, stream, polling, did, faults>>

vars == <<fills, derived, analysed, repeated, cfg, call, sizes, quote,
          trail, fetch,
          exch, balance, active_coin, current_flip_count, pc, placed,
          parked, stream, polling, did, faults>>

----------------------------------------------------------------------------
(* Exact fractions.                                                        *)

Abs(x) == IF x < 0 THEN -x ELSE x

\* The element of a one-element set.  Operators below take their arguments
\* through one-element sets so that each argument is evaluated once.
The(S) == CHOOSE x \in S : TRUE

RECURSIVE Gcd(_, _)
Gcd(a, b) ==
    IF b = 0 THEN a ELSE The({Gcd(y, x % y) : x \in {a}, y \in {b}})

\* The reduced fraction n/d, d # 0, with a positive denominator.
Rat(n, d) ==
    The({ The({ <<(IF y < 0 THEN -x ELSE x) \div g, Abs(y) \div g>> :
                   g \in {Gcd(Abs(x), Abs(y))} }) : x \in {n}, y \in {d} })

RInt(n)    == <<n, 1>>
RAdd(p, q) ==
    The({Rat(a[1] * b[2] + b[1] * a[2], a[2] * b[2]) : a \in {p}, b \in {q}})
RSub(p, q) ==
    The({Rat(a[1] * b[2] - b[1] * a[2], a[2] * b[2]) : a \in {p}, b \in {q}})
RMul(p, q) == The({Rat(a[1] * b[1], a[2] * b[2]) : a \in {p}, b \in {q}})
RDiv(p, q) == The({Rat(a[1] * b[2], a[2] * b[1]) : a \in {p}, b \in {q}})
RLt(p, q)  == The({a[1] * b[2] < b[1] * a[2] : a \in {p}, b \in {q}})
RLe(p, q)  == The({a[1] * b[2] <= b[1] * a[2] : a \in {p}, b \in {q}})

----------------------------------------------------------------------------
(* The fill-based state reconstructor, position_tracker.py.                *)

\* The tolerance 0.001 of the source, in lots of 0.001 contract.
EPS == 1

Min(a, b) == IF a < b THEN a ELSE b

\* running_position += qty for a buy, -= qty for a sell.
Signed(f) == IF f.side = "buy" THEN f.amount ELSE -f.amount

\* The loop of _get_current_cycle_fills: i is the (1-based) fill being
\* replayed, last the last element of cycle_boundaries (0-based, as in the
\* source).
RECURSIVE BoundaryScan(_, _, _, _)
BoundaryScan(fs, i, running, last) ==
    IF i > Len(fs) THEN last
    ELSE LET prev == running
             run  == running + Signed(fs[i])
             nl   == IF Abs(prev) > EPS
                     THEN IF Abs(run) < EPS
                          THEN (IF i < Len(fs) THEN i ELSE last)
                          ELSE IF (prev > 0 /\ run < 0) \/ (prev < 0 /\ run > 0)
                               THEN i - 1
                               ELSE last
                     ELSE last
         IN  BoundaryScan(fs, i + 1, run, nl)

\* A replay that records no boundary.
NoBoundary(fs) == 0

\* cycle_boundaries[-1]: the 0-based index of the first fill of the
\* current cycle.
LastBoundary(fs) == BoundaryScan(fs, 1, 0, 0)

\* A replay that hands the whole history on.
WholeHistory(fs) == fs

GetCurrentCycleFills(fs) ==
    IF fs = <<>> THEN <<>>
    ELSE SubSeq(fs, LastBoundary(fs) + 1, Len(fs))

\* The loop of _count_flips: prevSide is "none" for Python's None.
RECURSIVE FlipScan(_, _, _, _, _)
FlipScan(fs, i, running, prevSide, count) ==
    IF i > Len(fs) THEN count
    ELSE LET run  == running + Signed(fs[i])
             side == IF Abs(run) > EPS
                     THEN (IF run > 0 THEN "long" ELSE "short")
                     ELSE "none"
             c    == IF prevSide # "none" /\ side # "none" /\ prevSide # side
                     THEN count + 1 ELSE count
             ps   == IF side # "none" THEN side ELSE prevSide
         IN  FlipScan(fs, i + 1, run, ps, c)

CountFlips(fs) == IF Len(fs) < 2 THEN 0 ELSE FlipScan(fs, 1, 0, "none", 0)

\* buy_queue / sell_queue of _calculate_realized_pnl: <<qty, price, fee>>.
QueueOf(fs, side) ==
    LET F == SelectSeq(fs, LAMBDA f : f.side = side)
    IN  [k \in 1..Len(F) |-> <<F[k].amount, F[k].price, F[k].fee>>]

\* The share of the two fees charged to one match:
\* (buy_fee + sell_fee) * matched_qty / (buy_qty + sell_qty).
MatchFee(bfee, sfee, matched, bqty, sqty) ==
    Rat((bfee + sfee) * matched, bqty + sqty)

\* The matching loop of _calculate_realized_pnl.
RECURSIVE MatchQueues(_, _, _)
MatchQueues(bq, sq, pnl) ==
    IF bq = <<>> \/ sq = <<>> THEN pnl
    ELSE LET b   == Head(bq)
             s   == Head(sq)
             m   == Min(b[1], s[1])
             p   == RSub(RInt(m * (s[2] - b[2])),
                         MatchFee(b[3], s[3], m, b[1], s[1]))
             nbq == IF b[1] - m < EPS THEN Tail(bq)
                    ELSE <<(<<b[1] - m, b[2], b[3]>>)>> \o Tail(bq)
             nsq == IF s[1] - m < EPS THEN Tail(sq)
                    ELSE <<(<<s[1] - m, s[2], s[3]>>)>> \o Tail(sq)
         IN  MatchQueues(nbq, nsq, RAdd(pnl, p))

CalculateRealizedPnl(fs) ==
    MatchQueues(QueueOf(fs, "buy"), QueueOf(fs, "sell"), RInt(0))

\* Sums of the accumulation loop of analyze_position_state.
RECURSIVE SumQty(_, _)
SumQty(fs, side) ==
    IF fs = <<>> THEN 0
    ELSE (IF Head(fs).side = side THEN Head(fs).amount ELSE 0)
         + SumQty(Tail(fs), side)

RECURSIVE SumCost(_, _)
SumCost(fs, side) ==
    IF fs = <<>> THEN 0
    ELSE (IF Head(fs).side = side THEN Head(fs).amount * Head(fs).price ELSE 0)
         + SumCost(Tail(fs), side)

NetQtySellsAdded(cf) == SumQty(cf, "buy") + SumQty(cf, "sell")

\* net_qty of analyze_position_state over the slice it is given.
NetQty(cf) == SumQty(cf, "buy") - SumQty(cf, "sell")

\* An empty history reported as a closed cycle.
EmptyStateComplete ==
    [in_position |-> FALSE, flip_count |-> 0, side |-> "none",
     net_quantity |-> 0, average_entry |-> RInt(0), total_fills |-> 0,
     last_fill_time |-> 0, realized_pnl |-> RInt(0),
     current_cycle_start |-> 0, cycle_complete |-> TRUE]

\* The state returned for an empty fill history.
EmptyState ==
    [in_position |-> FALSE, flip_count |-> 0, side |-> "none",
     net_quantity |-> 0, average_entry |-> RInt(0), total_fills |-> 0,
     last_fill_time |-> 0, realized_pnl |-> RInt(0),
     current_cycle_start |-> 0, cycle_complete |-> FALSE]

\* analyze_position_state on a fetched fill history.  A fill's timestamp is
\* its position in the history; 0 stands for None.
AnalyzePositionState(fs) ==
    IF fs = <<>> THEN EmptyState
    ELSE LET cf    == GetCurrentCycleFills(fs)
             net   == NetQty(cf)
             inpos == Abs(net) > EPS
             side  == IF inpos THEN (IF net > 0 THEN "long" ELSE "short")
                      ELSE "none"
             avg   == IF side = "long" /\ SumQty(cf, "buy") > 0
                      THEN Rat(SumCost(cf, "buy"), SumQty(cf, "buy"))
                      ELSE IF side = "short" /\ SumQty(cf, "sell") > 0
                      THEN Rat(SumCost(cf, "sell"), SumQty(cf, "sell"))
                      ELSE RInt(0)
         IN  [in_position |-> inpos,
              flip_count |-> CountFlips(cf),
              side |-> side,
              net_quantity |-> Abs(net),
              average_entry |-> avg,
              total_fills |-> Len(cf),
              last_fill_time |-> Len(fs),
              realized_pnl |-> CalculateRealizedPnl(cf),
              current_cycle_start |-> LastBoundary(fs) + 1,
              cycle_complete |-> (~inpos /\ Len(cf) > 0)]

----------------------------------------------------------------------------
(* The sizing engine, calc_engine.py.  Sizes are fractions of a USD.       *)

\* The integer nearest to the fraction x >= 0; an exact tie goes to the even
\* neighbour.
RoundHalfEven(x) ==
    LET q == x[1] \div x[2]
        r == x[1] % x[2]
    IN  IF 2 * r < x[2] THEN q
        ELSE IF 2 * r > x[2] THEN q + 1
        ELSE IF q % 2 = 0 THEN q ELSE q + 1

\* round(x, 3)
Round3(x) == Rat(RoundHalfEven(RMul(x, RInt(1000))), 1000)

CalculateNextPositionOffByOne(c, flipCount, previousSize) ==
    IF flipCount > c.max_flips THEN RInt(0)
    ELSE Round3(RMul(previousSize, c.multiplier))

CalculateNextPositionTruncating(c, flipCount, previousSize) ==
    IF flipCount >= c.max_flips THEN RInt(0)
    ELSE LET x == RMul(RMul(previousSize, c.multiplier), RInt(1000))
         IN  Rat(x[1] \div x[2], 1000)

\* TradeCalculator.calculate_next_position(current_flip_count,
\* previous_size, realized_loss) of the calculator built from config c;
\* realized_loss is not read.
CalculateNextPosition(c, flipCount, previousSize) ==
    IF flipCount >= c.max_flips THEN RInt(0)
    ELSE Round3(RMul(previousSize, c.multiplier))

\* x to the power k, k >= 0.
RECURSIVE RPow(_, _)
RPow(x, k) == IF k = 0 THEN RInt(1) ELSE RMul(x, RPow(x, k - 1))

\* The list of position sizes of tools/calc_max_cycle_loss.py: the initial
\* size and one more size per flip, each the previous times the multiplier.
ToolPositions(c) ==
    [k \in 1..(c.max_flips + 1) |-> RMul(c.initial, RPow(c.multiplier, k - 1))]

----------------------------------------------------------------------------
(* Dynamic range and order prices, main.py.  Percentages and prices are    *)
(* fractions.  A ticker is what fetch_ticker answers: ok is FALSE when the *)
(* call raises, a missing quote is 0, and marketOk tells whether the       *)
(* fallback get_market_price succeeds.                                     *)

\* TradeCalculator.calculate_range(flip_count): the base range widened per
\* flip, range_pct * range_pct_increase_per_flip ^ flip_count.
CalculateRange(c, flipCount) ==
    RMul(c.range_pct, RPow(c.range_pct_increase_per_flip, flipCount))

\* spread_pct of get_dynamic_range_and_price.
SpreadPct(t) ==
    IF RLt(RInt(0), t.ask) /\ RLt(RInt(0), t.bid)
    THEN RMul(RDiv(RSub(t.ask, t.bid), t.ask), RInt(100))
    ELSE RInt(0)

GetDynamicRangeAndPriceNoSpread(c, t, flipCount) ==
    IF t.ok
    THEN [price |-> t.last, range |-> CalculateRange(c, flipCount)]
    ELSE [price |-> IF t.marketOk THEN t.last ELSE RInt(0),
          range |-> CalculateRange(c, flipCount)]

\* get_dynamic_range_and_price(symbol, flip_count): (current_price,
\* dynamic_range_pct).
GetDynamicRangeAndPrice(c, t, flipCount) ==
    IF t.ok
    THEN [price |-> t.last,
          range |-> RAdd(CalculateRange(c, flipCount), SpreadPct(t))]
    ELSE [price |-> IF t.marketOk THEN t.last ELSE RInt(0),
          range |-> CalculateRange(c, flipCount)]

\* take_profit_price: entry * (1 + range/100) for a long, entry *
\* (1 - range/100) for a short.
TakeProfitPrice(entry, side, range) ==
    IF side = "long"
    THEN RMul(entry, RAdd(RInt(1), RDiv(range, RInt(100))))
    ELSE RMul(entry, RSub(RInt(1), RDiv(range, RInt(100))))

\* flip_trigger_price: entry * (1 - range/100) for a long, entry *
\* (1 + range/100) for a short.
FlipTriggerPrice(entry, side, range) ==
    IF side = "long"
    THEN RMul(entry, RSub(RInt(1), RDiv(range, RInt(100))))
    ELSE RMul(entry, RAdd(RInt(1), RDiv(range, RInt(100))))

----------------------------------------------------------------------------
(* The reconstructor as a state machine: the exchange appends fills, the   *)
(* bot fetches the history and analyses it.                                *)

MaxFills == 3

Sides   == {"buy", "sell"}
Amounts == {1, 2, 10, 25}
Prices  == {90, 100, 110}

\* The fee the exchange reports on a fill: 0.2% of the notional, rounded
\* down to the exchange's precision.
ExchangeFee(a, p) == (a * p) \div 500

Fill(s, a, p) ==
    [side |-> s, amount |-> a, price |-> p, fee |-> ExchangeFee(a, p)]

\* A strategy configuration: the fields of config['strategy'] and
\* config['account'] the model reads.
Config(m, maxFlips, initial, rangePct, growth) ==
    [multiplier |-> m, max_flips |-> maxFlips, initial |-> initial,
     range_pct |-> rangePct, range_pct_increase_per_flip |-> growth,
     balance_compound |-> FALSE, initial_entry_pct |-> RInt(1),
     fixed_initial_order |-> initial, market_orders_cycle_start |-> TRUE]

NoLeg == [contracts |-> 0, entry |-> RInt(0)]

NoPlacement ==
    [site |-> "none", next |-> RInt(0), sufficient |-> TRUE, order |-> "none"]

\* The book of an instrument that was never traded.
NoBook ==
    [long |-> NoLeg, short |-> NoLeg, orders |-> <<>>, price |-> 100,
     fills |-> <<>>]

NoStep == [op |-> "none", fault |-> "none"]

\* The exchange and the bot while a specification does not run the
\* orchestrator: no position, no order, no active symbol.
IdleBot ==
    /\ exch = [long |-> NoLeg, short |-> NoLeg, orders |-> <<>>, price |-> 100]
    /\ balance = 0
    /\ active_coin = "none"
    /\ current_flip_count = 0
    /\ pc = "cycle"
    /\ placed = NoPlacement
    /\ parked = NoBook
    /\ stream = "closed"
    /\ polling = FALSE
    /\ did = NoStep
    /\ faults = 0

NoCall ==
    [flipCount |-> 0, previousSize |-> RInt(0), result |-> RInt(0),
     made |-> FALSE]

NoQuote ==
    [made |-> FALSE, flipCount |-> 0, side |-> "long", entry |-> RInt(0),
     ticker |-> [ok |-> FALSE, marketOk |-> FALSE, last |-> RInt(0),
                 ask |-> RInt(0), bid |-> RInt(0)],
     price |-> RInt(0), range |-> RInt(0), tp |-> RInt(0), trigger |-> RInt(0)]

\* No position is followed by the trailing exit.
NoTrail ==
    [exit_use_trailing |-> FALSE, range_pct |-> RInt(0),
     trailing_retracement_pct |-> RInt(0), entry |-> 0, direction |-> "long",
     price |-> 0, peak |-> 0, activated |-> FALSE, called |-> FALSE,
     should_exit |-> FALSE]

\* No call of fetch_all_fills is under way.
NoFetch ==
    [held |-> <<>>, since |-> 0, end_time |-> 0, all_trades |-> <<>>,
     at |-> "idle", raised |-> FALSE, pages |-> 0, final_trades |-> <<>>]

\* The configuration and the calculator's records while a specification
\* does not exercise the sizing engine.
IdleSizing ==
    /\ cfg = Config(RInt(2), 3, RInt(100), RInt(2), RInt(1))
    /\ call = NoCall
    /\ sizes = <<>>
    /\ quote = NoQuote
    /\ trail = NoTrail
    /\ fetch = NoFetch
    /\ IdleBot

\* The reconstructor before any fill and any analysis.
IdleTracker ==
    /\ fills = <<>>
    /\ derived = EmptyState
    /\ analysed = FALSE
    /\ repeated = FALSE

InitTracker ==
    /\ IdleTracker
    /\ IdleSizing

\* The exchange executes an order of the symbol: one more fill.  The value
\* returned by an earlier analysis is not kept by the program.
ExchangeFill ==
    /\ Len(fills) < MaxFills
    /\ \E s \in Sides, a \in Amounts, p \in Prices :
          fills' = Append(fills, Fill(s, a, p))
    /\ analysed' = FALSE
    /\ repeated' = FALSE
    /\ derived' = EmptyState
    /\ UNCHANGED <<sizingVars, rangeVars, orchVars>>

AnalyzeRemembering ==
    /\ derived' = [AnalyzePositionState(fills) EXCEPT
                      !.flip_count = IF analysed THEN derived.flip_count + 1
                                     ELSE @]
    /\ analysed' = TRUE
    /\ repeated' = analysed
    /\ UNCHANGED <<fills, sizingVars, rangeVars, orchVars>>

\* tracker.analyze_position_state(symbol): the history is fetched and the
\* state derived from it alone; the tracker keeps nothing between calls.
\* The call may be repeated on an unchanged history.
Analyze ==
    /\ derived' = AnalyzePositionState(fills)
    /\ analysed' = TRUE
    /\ repeated' = analysed
    /\ UNCHANGED <<fills, sizingVars, rangeVars, orchVars>>

NextTracker == ExchangeFill \/ Analyze

SpecTracker == InitTracker /\ [][NextTracker]_vars

----------------------------------------------------------------------------
(* Claims about the reconstructor, checked under SpecTracker.              *)

\* The running signed quantity after the first k fills of the history.
RECURSIVE RunningAt(_, _)
RunningAt(fs, k) == IF k = 0 THEN 0 ELSE RunningAt(fs, k - 1) + Signed(fs[k])

\* Fill k takes the running quantity across zero without touching it.
\* The quantity before it is a position by the tolerance of the source.
IsFlipFill(fs, k) ==
    /\ k \in 2..Len(fs)
    /\ Abs(RunningAt(fs, k - 1)) > EPS
    /\ \/ RunningAt(fs, k - 1) > 0 /\ RunningAt(fs, k) < 0
       \/ RunningAt(fs, k - 1) < 0 /\ RunningAt(fs, k) > 0

\* C1 (as claimed): when the last fill of the history is a flip fill, the
\* analysis reports a new cycle that starts at that fill, on the side of the
\* fill, with flip_count 0 and with net_quantity the quantity left after the
\* old position is closed, |previous running quantity + signed fill|; and
\* [buy 10@100, sell 25@90] gives short 15 @ 90 with flip_count 0.
C1_FlipFillOpensNewCycle ==
    (analysed /\ IsFlipFill(fills, Len(fills))) =>
        /\ derived.current_cycle_start = Len(fills)
        /\ derived.side = (IF fills[Len(fills)].side = "buy" THEN "long" ELSE "short")
        /\ derived.flip_count = 0
        /\ derived.net_quantity = Abs(RunningAt(fills, Len(fills)))
        /\ (fills = <<Fill("buy", 10, 100), Fill("sell", 25, 90)>> =>
              /\ derived.side = "short"
              /\ derived.net_quantity = 15
              /\ derived.average_entry = RInt(90))

\* The sum of the signed amounts of fills from..Len(fs), the buys counted
\* positive and the sells negative.
RECURSIVE SignedSumFrom(_, _)
SignedSumFrom(fs, from) ==
    IF from > Len(fs) \/ from < 1 THEN 0
    ELSE Signed(fs[from]) + SignedSumFrom(fs, from + 1)

\* C2: for every fill history the reported net_quantity is the magnitude of
\* (sum of buys - sum of sells) over the current-cycle slice, and in_position
\* is true exactly when that magnitude is greater than the tolerance.
C2_NetQuantityIsSliceSum ==
    analysed =>
        LET net == SignedSumFrom(fills, derived.current_cycle_start)
        IN  /\ derived.net_quantity = Abs(net)
            /\ derived.net_quantity >= 0
            /\ derived.in_position <=> (Abs(net) > EPS)

\* C2 witness: an analysed three-fill history whose current cycle starts
\* after the first fill and holds a position.
C2_Witness ==
    /\ analysed
    /\ Len(fills) = 3
    /\ derived.current_cycle_start > 1
    /\ derived.total_fills = 2
    /\ derived.in_position

\* C3 (as claimed): for a slice of one buy and one sell of equal quantity q,
\* in either order, the realized P&L is q * (sellPrice - buyPrice) minus
\* the whole of both fees.
C3_MatchedPairPnl ==
    (/\ analysed
     /\ Len(fills) = 2
     /\ fills[1].side # fills[2].side
     /\ fills[1].amount = fills[2].amount) =>
        LET b == IF fills[1].side = "buy" THEN fills[1] ELSE fills[2]
            s == IF fills[1].side = "sell" THEN fills[1] ELSE fills[2]
        IN  /\ CalculateRealizedPnl(fills)
                  = RInt(b.amount * (s.price - b.price) - (b.fee + s.fee))
            /\ derived.realized_pnl = CalculateRealizedPnl(fills)

\* C4 (as claimed): when the last fill brings the running quantity back to
\* exactly zero, the analysis reports the closed cycle: cycle_complete,
\* not in_position, side none, flip_count 0 when the cycle holds no
\* reversal; and [buy 10@100, sell 10@110] gives realized_pnl = 100 minus
\* the fees of the two fills.
C4_ClosedCycleReported ==
    (/\ analysed
     /\ Len(fills) >= 2
     /\ RunningAt(fills, Len(fills)) = 0
     /\ RunningAt(fills, Len(fills) - 1) # 0) =>
        /\ derived.cycle_complete
        /\ ~derived.in_position
        /\ derived.side = "none"
        /\ ((\A k \in 1..Len(fills) : ~IsFlipFill(fills, k)) =>
               derived.flip_count = 0)
        /\ (fills = <<Fill("buy", 10, 100), Fill("sell", 10, 110)>> =>
               derived.realized_pnl
                   = RInt(100 - (ExchangeFee(10, 100) + ExchangeFee(10, 110))))

----------------------------------------------------------------------------
(* The sizing engine as a state machine: a calculator is built from a      *)
(* configuration, then calculate_next_position is called, either with any  *)
(* arguments or in a progression that feeds each result back.              *)

MaxFlipsBound == 3

Multipliers  == {RInt(2), Rat(3, 2)}
InitialSizes == {RInt(100), Rat(12345, 10000), Rat(1, 1000)}
PrevSizes    == InitialSizes \cup {Rat(3, 10000), RInt(0)}

InitSizing ==
    /\ IdleTracker
    /\ \E m \in Multipliers, mf \in 0..MaxFlipsBound, i \in InitialSizes :
          cfg = Config(m, mf, i, RInt(2), RInt(1))
    /\ call = NoCall
    /\ sizes = <<cfg.initial>>
    /\ quote = NoQuote
    /\ trail = NoTrail
    /\ fetch = NoFetch
    /\ IdleBot

\* calculator.calculate_next_position(flipCount, previousSize, 0)
CalcNextPosition ==
    /\ \E f \in 0..(MaxFlipsBound + 1), prev \in PrevSizes :
          call' = [flipCount |-> f, previousSize |-> prev,
                   result |-> CalculateNextPosition(cfg, f, prev),
                   made |-> TRUE]
    /\ UNCHANGED <<trackerVars, cfg, sizes, rangeVars, orchVars>>

\* The next request of a progression: the flip count is the number of
\* requests made so far and the previous size is the last result.  The
\* progression ends with the request made at flipCount = max_flips.
ProgressionStep ==
    /\ Len(sizes) <= cfg.max_flips + 1
    /\ sizes' = Append(sizes,
                        CalculateNextPosition(cfg, Len(sizes) - 1, sizes[Len(sizes)]))
    /\ UNCHANGED <<trackerVars, cfg, call, rangeVars, orchVars>>

NextSizing == CalcNextPosition \/ ProgressionStep

SpecSizing == InitSizing /\ [][NextSizing]_vars

----------------------------------------------------------------------------
(* Claims about the sizing engine, checked under SpecSizing.               *)

\* x is a whole number of thousandths.
IsThousandths(x) == 1000 % x[2] = 0

\* r is x rounded to three decimals: a whole number of thousandths at most
\* 0.0005 away from x.
IsRounded3(r, x) ==
    /\ IsThousandths(r)
    /\ RLe(RSub(r, x), Rat(1, 2000))
    /\ RLe(RSub(x, r), Rat(1, 2000))

C7_GeometricProgression ==
    /\ \A k \in 1..Len(sizes) :
          k <= cfg.max_flips + 1 => sizes[k] = ToolPositions(cfg)[k]
    /\ Len(sizes) = cfg.max_flips + 2 => sizes[Len(sizes)] = RInt(0)

\* C7 (amended): the progression starts at the initial size, each further
\* size up to the one of flipCount = max_flips - 1 is the previous size
\* times the multiplier rounded to three decimals, and the request made at
\* flipCount = max_flips returns 0; it is initial*m^k wherever these
\* products are whole thousandths, and initial 100, multiplier 2,
\* max_flips 3 gives 100, 200, 400, 800 and then 0.
C7_RoundedProgression ==
    /\ sizes[1] = cfg.initial
    /\ Len(sizes) <= cfg.max_flips + 2
    /\ \A k \in 2..Len(sizes) :
          k <= cfg.max_flips + 1 =>
             IsRounded3(sizes[k], RMul(sizes[k - 1], cfg.multiplier))
    /\ Len(sizes) = cfg.max_flips + 2 => sizes[Len(sizes)] = RInt(0)
    /\ \A k \in 1..Len(sizes) :
          (/\ k <= cfg.max_flips + 1
           /\ \A j \in 1..k : IsThousandths(ToolPositions(cfg)[j])) =>
             sizes[k] = ToolPositions(cfg)[k]
    /\ (/\ cfg = Config(RInt(2), 3, RInt(100), RInt(2), RInt(1))
        /\ Len(sizes) = 5) =>
          sizes = <<RInt(100), RInt(200), RInt(400), RInt(800), RInt(0)>>

\* C7 witness: the progression of the instance, complete.
C7_WitnessInstance ==
    /\ cfg = Config(RInt(2), 3, RInt(100), RInt(2), RInt(1))
    /\ Len(sizes) = 5
    /\ sizes[4] = RInt(800)

----------------------------------------------------------------------------
(* Range and order prices as a state machine: for a configuration, the     *)
(* bot prices the take-profit and the flip trigger of a position from a    *)
(* ticker, as place_initial_entry, reconcile_orders and                    *)
(* handle_flip_cleanup do.                                                 *)

MaxQuoteFlips == 2

RangePcts    == {RInt(2), RInt(10)}
RangeGrowths == {RInt(1), Rat(3, 2)}
EntryPrices  == {RInt(100), Rat(2501, 10)}
PosSides     == {"long", "short"}

\* The tickers the exchange may answer: a quote of 100 with bid 99.95, one
\* with no spread, one with the bid missing, and a failed fetch with or
\* without a working fallback.  The exchange's book is the same in all.
Tickers ==
    { [ok |-> TRUE,  marketOk |-> TRUE,  last |-> RInt(100),
       ask |-> RInt(100), bid |-> Rat(1999, 20)],
      [ok |-> TRUE,  marketOk |-> TRUE,  last |-> RInt(100),
       ask |-> RInt(100), bid |-> RInt(100)],
      [ok |-> TRUE,  marketOk |-> TRUE,  last |-> RInt(100),
       ask |-> RInt(100), bid |-> RInt(0)],
      [ok |-> FALSE, marketOk |-> TRUE,  last |-> RInt(100),
       ask |-> RInt(100), bid |-> Rat(1999, 20)],
      [ok |-> FALSE, marketOk |-> FALSE, last |-> RInt(100),
       ask |-> RInt(100), bid |-> Rat(1999, 20)] }

InitRange ==
    /\ IdleTracker
    /\ \E r \in RangePcts, g \in RangeGrowths :
          cfg = Config(RInt(2), 3, RInt(100), r, g)
    /\ call = NoCall
    /\ sizes = <<>>
    /\ quote = NoQuote
    /\ trail = NoTrail
    /\ fetch = NoFetch
    /\ IdleBot

\* current_price, range_pct = get_dynamic_range_and_price(symbol, flip_count)
\* followed by the computation of the two order prices from the entry.
PriceOrders ==
    /\ \E f \in 0..MaxQuoteFlips, t \in Tickers, e \in EntryPrices,
          sd \in PosSides :
          LET pr == GetDynamicRangeAndPrice(cfg, t, f)
          IN  quote' = [made |-> TRUE, flipCount |-> f, side |-> sd,
                        entry |-> e, ticker |-> t,
                        price |-> pr.price, range |-> pr.range,
                        tp |-> TakeProfitPrice(e, sd, pr.range),
                        trigger |-> FlipTriggerPrice(e, sd, pr.range)]
    /\ UNCHANGED <<trackerVars, sizingVars, orchVars, trail, fetch>>

NextRange == PriceOrders

SpecRange == InitRange /\ [][NextRange]_vars

----------------------------------------------------------------------------
(* Claims about the range and the order prices, checked under SpecRange.   *)

\* The live spread of the exchange's book, in percent of the ask; no
\* spread where a quote is missing.
LiveSpread(t) ==
    IF t.ask[1] > 0 /\ t.bid[1] > 0
    THEN Rat((t.ask[1] * t.bid[2] - t.bid[1] * t.ask[2]) * 100 * t.ask[2],
             t.ask[1] * t.bid[2] * t.ask[2])
    ELSE RInt(0)

\* base_range * rangeGrowth ^ flipCount
BaseRange(c, f) == RMul(c.range_pct, RPow(c.range_pct_increase_per_flip, f))

\* The two order prices are symmetric offsets of the range from the entry.
SymmetricOffsets(q) ==
    LET off == RDiv(RMul(q.entry, q.range), RInt(100))
    IN  IF q.side = "long"
        THEN q.tp = RAdd(q.entry, off) /\ q.trigger = RSub(q.entry, off)
        ELSE q.tp = RSub(q.entry, off) /\ q.trigger = RAdd(q.entry, off)

\* C8 (as claimed): the range used for the order prices is
\* base_range * rangeGrowth^flipCount + live spread, and the take-profit
\* and flip-trigger prices are symmetric offsets of that range from the
\* entry.
C8_RangeIsBasePlusSpread ==
    quote.made =>
        /\ quote.range = RAdd(BaseRange(cfg, quote.flipCount),
                              LiveSpread(quote.ticker))
        /\ SymmetricOffsets(quote)

\* C8 (amended): when the ticker is fetched, the range is
\* base_range * rangeGrowth^flipCount + live spread; when the fetch fails
\* the range is base_range * rangeGrowth^flipCount alone.  In both cases
\* the take-profit and flip-trigger prices are symmetric offsets of the
\* range from the entry, and base range 2, spread 0.05, long entry 100
\* gives range 2.05, take-profit 102.05 and trigger 97.95.
C8_RangeWithFallback ==
    quote.made =>
        /\ quote.ticker.ok =>
               quote.range = RAdd(BaseRange(cfg, quote.flipCount),
                                  LiveSpread(quote.ticker))
        /\ ~quote.ticker.ok => quote.range = BaseRange(cfg, quote.flipCount)
        /\ SymmetricOffsets(quote)
        /\ (/\ cfg.range_pct = RInt(2)
            /\ (quote.flipCount = 0 \/ cfg.range_pct_increase_per_flip = RInt(1))
            /\ quote.ticker.ok
            /\ quote.ticker.bid = Rat(1999, 20)
            /\ quote.side = "long"
            /\ quote.entry = RInt(100)) =>
               /\ quote.range = Rat(205, 100)
               /\ quote.tp = Rat(10205, 100)
               /\ quote.trigger = Rat(9795, 100)

\* C8 witness: the instance, and a widened range on a short.
C8_WitnessInstance ==
    /\ quote.made
    /\ cfg.range_pct = RInt(2)
    /\ quote.flipCount = 0
    /\ quote.ticker.ok
    /\ quote.ticker.bid = Rat(1999, 20)
    /\ quote.side = "long"
    /\ quote.entry = RInt(100)
    /\ quote.tp = Rat(10205, 100)

----------------------------------------------------------------------------
(* The exchange in hedge mode, src/src/exchanges/bybit.py.  One symbol.    *)
(* A leg is [contracts, entry]: contracts in lots, entry a fraction.  The  *)
(* exchange keeps amounts in whole lots and prices in whole ticks.  A      *)
(* world is the exchange's state with the fill history.                    *)

LotsPerContract == 1000

\* The largest integer not above the non-negative fraction x.
Floor(x) == x[1] \div x[2]

\* The amount of an order as the exchange books it: a number of contracts
\* cut down to whole lots.
ToLots(contracts) == Floor(RMul(contracts, RInt(LotsPerContract)))

\* The price of an order as the exchange books it: the nearest tick.
PriceToTick(x) == (2 * x[1] + x[2]) \div (2 * x[2])

\* position['contracts'] of a leg, in contracts.
Contracts(leg) == Rat(leg.contracts, LotsPerContract)

Opposite(positionSide) == IF positionSide = "long" THEN "short" ELSE "long"

\* An order opens its leg when it buys on the long index or sells on the
\* short index; otherwise it reduces the leg.
Opens(side, positionSide) ==
    (side = "buy" /\ positionSide = "long") \/
    (side = "sell" /\ positionSide = "short")

World == [long |-> exch.long, short |-> exch.short, orders |-> exch.orders,
          price |-> exch.price, fills |-> fills]

LegOf(w, positionSide) == IF positionSide = "long" THEN w.long ELSE w.short

WithLeg(w, positionSide, leg) ==
    IF positionSide = "long" THEN [w EXCEPT !.long = leg]
    ELSE [w EXCEPT !.short = leg]

\* The exchange executes `lots` of an order at price p on a leg: the leg
\* grows at the averaged entry price or shrinks, and the execution is
\* recorded as a fill.  Reducing an empty leg executes nothing.
Execute(w, side, lots, p, positionSide) ==
    LET leg == LegOf(w, positionSide)
        n   == IF Opens(side, positionSide) THEN lots
               ELSE Min(lots, leg.contracts)
        new == IF Opens(side, positionSide)
               THEN [contracts |-> leg.contracts + n,
                     entry |-> Rat(leg.entry[1] * leg.contracts
                                   + p * n * leg.entry[2],
                                   leg.entry[2] * (leg.contracts + n))]
               ELSE IF leg.contracts - n = 0 THEN NoLeg
               ELSE [leg EXCEPT !.contracts = @ - n]
    IN  IF n = 0 THEN w
        ELSE [WithLeg(w, positionSide, new) EXCEPT
                 !.fills = Append(@, Fill(side, n, p))]

\* BybitClient.create_market_order: executed at once at the last price.
CreateMarketOrder(w, side, lots, positionSide) ==
    Execute(w, side, lots, w.price, positionSide)

\* BybitClient.create_limit_order: a resting limit order.
CreateLimitOrder(w, side, lots, price, positionSide, reduceOnly) ==
    [w EXCEPT !.orders = Append(@,
        [kind |-> "limit", side |-> side, amount |-> lots,
         price |-> PriceToTick(price), position_side |-> positionSide,
         order_type |-> "Limit", reduce_only |-> reduceOnly])]

\* BybitClient.create_conditional_order: an order that waits for the last
\* price to reach the trigger price.
CreateConditionalOrder(w, side, lots, trigger, posSide, orderType, reduce) ==
    [w EXCEPT !.orders = Append(@,
        [kind |-> "conditional", side |-> side, amount |-> lots,
         price |-> PriceToTick(trigger), position_side |-> posSide,
         order_type |-> orderType, reduce_only |-> reduce])]

\* fetch_open_orders followed by cancel_order on each.
CancelAllOrders(w) == [w EXCEPT !.orders = <<>>]

\* The ticker the exchange answers in the orchestrator's runs: the last
\* price, quoted without spread.
TickerOf(w) ==
    [ok |-> TRUE, marketOk |-> TRUE, last |-> RInt(w.price),
     ask |-> RInt(w.price), bid |-> RInt(w.price)]

IsTakeProfit(o) == o.kind = "limit" /\ o.reduce_only
IsFlipOrder(o) ==
    o.kind = "conditional" /\ o.order_type = "Limit" /\ ~o.reduce_only
IsStopLoss(o) ==
    o.kind = "conditional" /\ o.order_type = "Market" /\ o.reduce_only

----------------------------------------------------------------------------
(* The account, src/src/account_manager.py.                                *)

\* round(x, 2)
Round2(x) == Rat(RoundHalfEven(RMul(x, RInt(100))), 100)

\* AccountManager.calculate_position_size(flip_count = 0)
CalculatePositionSize(c, bal) ==
    IF c.balance_compound
    THEN IF bal = 0 THEN RInt(0)
         ELSE Round2(RMul(RInt(bal), RDiv(c.initial_entry_pct, RInt(100))))
    ELSE Round2(c.fixed_initial_order)

\* AccountManager.check_sufficient_balance(amount_usd): the available
\* balance covers the amount.
CheckSufficientBalance(bal, amount) == RLe(amount, RInt(bal))

\* The sizing decision: stop when the next size is 0 or the balance does
\* not cover it.
ShouldStop(next, bal) == next = RInt(0) \/ ~CheckSufficientBalance(bal, next)

----------------------------------------------------------------------------
(* The orchestrator's handlers, src/src/main.py, as functions of the world *)
(* they act on.  Each returns the world it leaves with what the caller     *)
(* reads of it.  Amounts the bot computes are fractions of a contract.     *)
(* A handler takes the fault of the step it runs in: the call of the       *)
(* exchange that fails while it runs, "none" when every call succeeds.     *)

\* "positions": the fetch of the positions a handler decides on returns
\* None; "positions_again": the fetch that follows in the same handler
\* returns None; "orders": fetch_open_orders raises; "cancel": cancel_order
\* raises on the first open order; "open": a market order that opens a leg
\* raises; "insufficient": it raises ccxt.InsufficientFunds; "close": a
\* market order that closes a leg raises; "limit": create_limit_order
\* raises; "conditional": create_conditional_order raises.
Faults ==
    {"none", "positions", "positions_again", "orders", "cancel", "open",
     "insufficient", "close", "limit", "conditional"}

\* The side of the order that takes profit on, stops, or flips a leg.
ExitSide(positionSide) == IF positionSide = "long" THEN "sell" ELSE "buy"

\* The take-profit of a leg: a reduce-only limit at the take-profit price.
PlaceTp(w, positionSide, contracts, entry, range) ==
    CreateLimitOrder(w, ExitSide(positionSide), ToLots(contracts),
                     TakeProfitPrice(entry, positionSide, range),
                     positionSide, TRUE)

\* The trigger-level order of a leg: at the trigger price either a
\* reduce-only market stop on the leg or a limit order opening the opposite
\* leg with the next size.
PlaceTrigger(w, positionSide, contracts, entry, range, next, stop) ==
    LET trigger == FlipTriggerPrice(entry, positionSide, range)
    IN  IF stop
        THEN CreateConditionalOrder(w, ExitSide(positionSide),
                 ToLots(contracts), trigger, positionSide, "Market", TRUE)
        ELSE CreateConditionalOrder(w, ExitSide(positionSide),
                 ToLots(RDiv(next, trigger)), trigger, Opposite(positionSide),
                 "Limit", FALSE)

\* The take-profit and the trigger-level order of a leg, as the three
\* placement sites submit them: the take-profit first.
PlaceTpAndTrigger(w, positionSide, contracts, entry, range, next, stop) ==
    PlaceTrigger(PlaceTp(w, positionSide, contracts, entry, range),
                 positionSide, contracts, entry, range, next, stop)

\* The two placements inside one try (initial entry, flip cleanup): the
\* call that fails ends the placement.
PlaceUntilFailure(w, positionSide, contracts, entry, range, next, stop, f) ==
    IF f = "limit" THEN w
    ELSE IF f = "conditional"
    THEN PlaceTp(w, positionSide, contracts, entry, range)
    ELSE PlaceTpAndTrigger(w, positionSide, contracts, entry, range, next, stop)

\* The two placements each in a try of its own (reconciliation): the call
\* that fails is skipped.
PlaceEach(w, positionSide, contracts, entry, range, next, stop, f) ==
    IF f = "limit"
    THEN PlaceTrigger(w, positionSide, contracts, entry, range, next, stop)
    ELSE IF f = "conditional"
    THEN PlaceTp(w, positionSide, contracts, entry, range)
    ELSE PlaceTpAndTrigger(w, positionSide, contracts, entry, range, next, stop)

\* cancel_order on each open order, each in a try of its own: the order
\* whose cancellation fails stays open.
CancelEach(w, f) ==
    IF f = "cancel" /\ Len(w.orders) > 0
    THEN [w EXCEPT !.orders = <<@[1]>>]
    ELSE CancelAllOrders(w)

\* fetch_open_orders and the cancellations inside a try: when the fetch
\* fails nothing is cancelled.
CancelInTry(w, f) == IF f = "orders" THEN w ELSE CancelEach(w, f)

\* A reconciliation that cancels nothing.
CancelNothing(w, f) == w

\* fetch_open_orders and the cancellations inside one try without a try
\* around each (reconciliation): the first failure ends the loop.
CancelUntilFailure(w, f) ==
    IF f = "orders" \/ (f = "cancel" /\ Len(w.orders) > 0) THEN w
    ELSE CancelAllOrders(w)

\* Whether a handler placed a trigger-level order under fault f.
PlacesTrigger(f) == f # "limit" /\ f # "conditional"

Placement(site, next, bal, stop) ==
    [site |-> site, next |-> next,
     sufficient |-> CheckSufficientBalance(bal, next),
     order |-> IF stop THEN "stop" ELSE "flip"]

\* An except clause that leaves the active symbol set.
KeepEntry(w) == [w |-> w, active |-> TRUE, placed |-> placed]

\* The except clause of place_initial_entry: the active symbol is cleared
\* and the function returns.
AbandonEntry(w) == [w |-> w, active |-> FALSE, placed |-> placed]

\* A read that shows the leg on the exchange whatever the call answered.
RereadAlways(w, positionSide, f) == LegOf(w, positionSide)

\* The position of the entry as place_initial_entry reads it back after the
\* entry order: no position when fetch_open_positions answers None
\* ("positions_again"), a position without an entry price when the exchange
\* has not priced it yet ("unpriced"), else the leg on the exchange.
RereadPosition(w, positionSide, f) ==
    IF f = "positions_again" THEN NoLeg
    ELSE IF f = "unpriced"
    THEN [LegOf(w, positionSide) EXCEPT !.entry = RInt(0)]
    ELSE LegOf(w, positionSide)

\* place_initial_entry(symbol, direction) with the ticker t that
\* get_dynamic_range_and_price read: `active` is FALSE when the handler
\* cleared the active symbol.
PlaceInitialEntry(w, c, bal, direction, t, f) ==
    LET positionSide == IF direction = "LONG" THEN "long" ELSE "short"
        side         == IF direction = "LONG" THEN "buy" ELSE "sell"
        Protect(w1, actualContracts, actualEntry, range) ==
            The({IF ~PlacesTrigger(f)
                 THEN AbandonEntry(PlaceUntilFailure(w1, positionSide,
                          actualContracts, actualEntry, range, next,
                          next = RInt(0), f))
                 ELSE [w |-> PlaceTpAndTrigger(w1, positionSide,
                                 actualContracts, actualEntry, range, next,
                                 next = RInt(0)),
                       active |-> TRUE,
                       placed |-> Placement("entry", next, bal, next = RInt(0))] :
                 next \in {CalculateNextPosition(c, 0,
                               RMul(actualContracts, actualEntry))}})
        Enter(pr, contracts) ==
            The({The({IF leg.contracts # 0 /\ leg.entry # RInt(0)
                      THEN The({Protect(w1, seen, leg.entry, pr.range) :
                                seen \in {Contracts(leg)}})
                      ELSE Protect(w1, contracts, pr.price, pr.range) :
                      leg \in {RereadPosition(w1, positionSide, f)}}) :
                 w1 \in {IF c.market_orders_cycle_start
                         THEN CreateMarketOrder(w, side, ToLots(contracts),
                                                positionSide)
                         ELSE CreateLimitOrder(w, side, ToLots(contracts),
                                  pr.price, positionSide, FALSE)}})
    IN  The({IF RLe(size, RInt(0))
             THEN [w |-> w, active |-> FALSE, placed |-> placed]
             ELSE IF \/ c.market_orders_cycle_start
                        /\ f \in {"open", "insufficient"}
                     \/ ~c.market_orders_cycle_start /\ f = "limit"
             THEN AbandonEntry(w)
             ELSE The({The({Enter(pr, contracts) :
                            contracts \in {RDiv(size, pr.price)}}) :
                       pr \in {GetDynamicRangeAndPrice(c, t, 0)}}) :
             size \in {CalculatePositionSize(c, bal)}})

\* A cleanup that takes the larger leg for the old one.
OldSideLarger(w) ==
    IF w.long.contracts > w.short.contracts THEN "long" ELSE "short"

\* handle_flip_cleanup, the choice of the old position: the long leg is the
\* new one when it holds more contracts than the short leg.
OldSide(w) ==
    IF w.long.contracts > w.short.contracts THEN "short" ELSE "long"

\* handle_flip_cleanup(symbol, long_position, short_position): both legs are
\* open.  Returns the flip count derived after the old leg is closed, or 0
\* when a call raised; `raised` tells which.
HandleFlipCleanup(w, c, bal, f) ==
    LET oldSide   == OldSide(w)
        newSide   == Opposite(oldSide)
        closeSide == IF oldSide = "short" THEN "buy" ELSE "sell"
        old == LegOf(w, oldSide)
        new == LegOf(w, newSide)
        w1 == CancelEach(w, f)
        w2 == CreateMarketOrder(w1, closeSide, old.contracts, oldSide)
        flipCount == AnalyzePositionState(w2.fills).flip_count
        pr   == GetDynamicRangeAndPrice(c, TickerOf(w2), flipCount)
        next == CalculateNextPosition(c, flipCount,
                                      RMul(Contracts(new), new.entry))
        stop == next = RInt(0)
    IN  IF f = "orders"
        THEN [w |-> w, flip_count |-> 0, placed |-> placed, raised |-> TRUE]
        ELSE IF f = "close"
        THEN [w |-> w1, flip_count |-> 0, placed |-> placed, raised |-> TRUE]
        ELSE IF ~PlacesTrigger(f)
        THEN [w |-> PlaceUntilFailure(w2, newSide, Contracts(new), new.entry,
                                      pr.range, next, stop, f),
              flip_count |-> 0, placed |-> placed, raised |-> TRUE]
        ELSE [w |-> PlaceTpAndTrigger(w2, newSide, Contracts(new), new.entry,
                                      pr.range, next, stop),
              flip_count |-> flipCount,
              placed |-> Placement("cleanup", next, bal, stop),
              raised |-> FALSE]

\* reconcile_orders(symbol, current_position): `leg` is the position the
\* caller read before.
ReconcileOrders(w, c, bal, positionSide, leg, f) ==
    LET w1  == CancelUntilFailure(w, f)
        flipCount == AnalyzePositionState(w1.fills).flip_count
        pr   == GetDynamicRangeAndPrice(c, TickerOf(w1), flipCount)
        next == CalculateNextPosition(c, flipCount,
                                      RMul(Contracts(leg), leg.entry))
        stop == ShouldStop(next, bal)
    IN  [w |-> PlaceEach(w1, positionSide, Contracts(leg), leg.entry,
                         pr.range, next, stop, f),
         placed |-> IF f = "conditional" THEN placed
                    ELSE Placement("reconcile", next, bal, stop)]

\* flip_triggered: the last price is at or beyond the leg's trigger price.
FlipTriggered(positionSide, entry, price, range) ==
    IF positionSide = "long"
    THEN RLe(price, FlipTriggerPrice(entry, positionSide, range))
    ELSE RLe(FlipTriggerPrice(entry, positionSide, range), price)

\* After an immediate flip or stop: the positions are fetched again and,
\* when both legs are open, cleaned up.
CleanupIfBoth(w, c, bal, flipCount, lastPlaced, f) ==
    IF f # "positions_again" /\ w.long.contracts # 0 /\ w.short.contracts # 0
    THEN HandleFlipCleanup(w, c, bal, f)
    ELSE [w |-> w, flip_count |-> flipCount, placed |-> lastPlaced,
          raised |-> FALSE]

\* check_manual_flip_trigger(symbol, current_position): at resume, when the
\* price is already past the trigger, the flip is executed at market.  A
\* call that raises leaves `triggered` FALSE.
CheckManualFlipTrigger(w, c, bal, positionSide, f) ==
    LET leg == LegOf(w, positionSide)
        flipCount == AnalyzePositionState(w.fills).flip_count
        pr  == GetDynamicRangeAndPrice(c, TickerOf(w), flipCount)
        sizeUsd  == RMul(Contracts(leg), leg.entry)
        flipSize == RMul(sizeUsd, c.multiplier)
        next == CalculateNextPosition(c, flipCount, sizeUsd)
        w1 == CancelEach(w, f)
        w2 == CreateMarketOrder(w1, ExitSide(positionSide),
                  ToLots(RDiv(flipSize, pr.price)), Opposite(positionSide))
        w3 == IF ShouldStop(next, bal)
              THEN CreateMarketOrder(w2, ExitSide(positionSide),
                       leg.contracts, positionSide)
              ELSE CreateMarketOrder(w2, ExitSide(positionSide),
                       ToLots(RDiv(next, pr.price)), Opposite(positionSide))
        done == CleanupIfBoth(w3, c, bal, flipCount, placed, f)
    IN  IF ~FlipTriggered(positionSide, leg.entry, pr.price, pr.range)
        THEN [w |-> w, triggered |-> FALSE, placed |-> placed]
        ELSE IF f = "orders"
        THEN [w |-> w, triggered |-> FALSE, placed |-> placed]
        ELSE IF f \in {"open", "insufficient"}
        THEN [w |-> w1, triggered |-> FALSE, placed |-> placed]
        ELSE IF f = "close" /\ ShouldStop(next, bal)
        THEN [w |-> w2, triggered |-> FALSE, placed |-> placed]
        ELSE IF f = "positions_again"
        THEN [w |-> w3, triggered |-> FALSE, placed |-> placed]
        ELSE [w |-> done.w, triggered |-> TRUE, placed |-> done.placed]

\* The reduce-only market order that closes the whole leg.
MarketClose(w, positionSide) ==
    CreateMarketOrder(w, ExitSide(positionSide),
                      LegOf(w, positionSide).contracts, positionSide)

\* The ticker a monitoring tick is answered under fault f: with "ticker"
\* fetch_ticker raises, in get_dynamic_range_and_price and again in the
\* fallback get_market_price.
TickerUnder(w, f) ==
    IF f = "ticker"
    THEN [TickerOf(w) EXCEPT !.ok = FALSE, !.marketOk = FALSE]
    ELSE TickerOf(w)

\* The body of the streaming loop on a snapshot with one open leg
\* (monitor_position_websocket): the price-based trigger check and the
\* immediate flip or stop.  `triggered` is TRUE when the price was past the
\* trigger, `raised` when a call raised out of the body.
MonitorOneLeg(w, c, bal, flipCount, positionSide, f) ==
    LET leg == LegOf(w, positionSide)
        pr  == GetDynamicRangeAndPrice(c, TickerUnder(w, f), flipCount)
        next == CalculateNextPosition(c, flipCount,
                                      RMul(Contracts(leg), leg.entry))
        w1 == CancelInTry(w, f)
        w2 == IF ShouldStop(next, bal) \/ f = "insufficient"
              THEN MarketClose(w1, positionSide)
              ELSE CreateMarketOrder(w1, ExitSide(positionSide),
                       ToLots(RDiv(next, pr.price)), Opposite(positionSide))
    IN  IF ~FlipTriggered(positionSide, leg.entry, pr.price, pr.range)
        THEN [w |-> w, flip_count |-> flipCount, placed |-> placed,
              raised |-> FALSE, triggered |-> FALSE]
        ELSE IF \/ f = "close" /\ ShouldStop(next, bal)
                \/ f = "open" /\ ~ShouldStop(next, bal)
                \/ pr.price = RInt(0) /\ ~ShouldStop(next, bal)
        THEN [w |-> w1, flip_count |-> flipCount, placed |-> placed,
              raised |-> TRUE, triggered |-> TRUE]
        ELSE The({[w |-> d.w, flip_count |-> d.flip_count,
                   placed |-> d.placed, raised |-> FALSE, triggered |-> TRUE] :
                  d \in {CleanupIfBoth(w2, c, bal, flipCount, placed, f)}})

\* A polling body that does not ask the account for the balance.
PollingOneLegUnchecked(w, c, bal, flipCount, positionSide, f) ==
    MonitorOneLeg(w, c, 1000, flipCount, positionSide, f)

\* The body of the polling loop on positions with one open leg
\* (manage_active_position_polling).
PollingOneLeg(w, c, bal, flipCount, positionSide, f) ==
    LET leg == LegOf(w, positionSide)
        pr  == GetDynamicRangeAndPrice(c, TickerUnder(w, f), flipCount)
        next == CalculateNextPosition(c, flipCount,
                                      RMul(Contracts(leg), leg.entry))
        w1 == CancelInTry(w, f)
        w2 == IF ShouldStop(next, bal) \/ f = "insufficient"
              THEN MarketClose(w1, positionSide)
              ELSE CreateMarketOrder(w1, ExitSide(positionSide),
                       ToLots(RDiv(next, pr.price)), Opposite(positionSide))
    IN  IF ~FlipTriggered(positionSide, leg.entry, pr.price, pr.range)
        THEN [w |-> w, flip_count |-> flipCount, placed |-> placed,
              raised |-> FALSE, triggered |-> FALSE]
        ELSE IF \/ f = "close" /\ ShouldStop(next, bal)
                \/ f = "open" /\ ~ShouldStop(next, bal)
                \/ pr.price = RInt(0) /\ ~ShouldStop(next, bal)
        THEN [w |-> w1, flip_count |-> flipCount, placed |-> placed,
              raised |-> TRUE, triggered |-> TRUE]
        ELSE The({[w |-> d.w, flip_count |-> d.flip_count,
                   placed |-> d.placed, raised |-> FALSE, triggered |-> TRUE] :
                  d \in {CleanupIfBoth(w2, c, bal, flipCount, placed, f)}})

\* What the loops do on positions with no leg open: the cycle is complete,
\* the remaining orders are cancelled inside a try.
CycleComplete(w, flipCount, f) ==
    [w |-> CancelInTry(w, f), flip_count |-> flipCount, placed |-> placed,
     raised |-> FALSE, triggered |-> FALSE, complete |-> TRUE]

\* The result of a handler that leaves the cycle open.
Ongoing(r, triggered) ==
    [w |-> r.w, flip_count |-> r.flip_count, placed |-> r.placed,
     raised |-> r.raised, triggered |-> triggered, complete |-> FALSE]

\* monitor_position_websocket(symbol), the body of its loop on one snapshot
\* of the stream, with the flip count the loop carries: both legs open are
\* cleaned up, no leg ends the cycle, one leg is checked against its trigger
\* price.  A cleanup that raised returns the flip count 0 and does not
\* raise out of the body.
MonitorPositionWebsocket(w, c, bal, flipCount, f) ==
    IF w.long.contracts # 0 /\ w.short.contracts # 0
    THEN The({[Ongoing(r, FALSE) EXCEPT !.raised = FALSE] :
              r \in {HandleFlipCleanup(w, c, bal, f)}})
    ELSE IF w.long.contracts = 0 /\ w.short.contracts = 0
    THEN CycleComplete(w, flipCount, f)
    ELSE The({Ongoing(r, r.triggered) :
              r \in {MonitorOneLeg(w, c, bal, flipCount,
                         IF w.long.contracts # 0 THEN "long" ELSE "short", f)}})

\* manage_active_position_polling(symbol, run_once=True), the body of its
\* loop on the positions it fetched, with the flip count the loop carries.
ManageActivePositionPolling(w, c, bal, flipCount, f) ==
    IF w.long.contracts # 0 /\ w.short.contracts # 0
    THEN The({[Ongoing(r, FALSE) EXCEPT !.raised = FALSE] :
              r \in {HandleFlipCleanup(w, c, bal, f)}})
    ELSE IF w.long.contracts = 0 /\ w.short.contracts = 0
    THEN CycleComplete(w, flipCount, f)
    ELSE The({Ongoing(r, r.triggered) :
              r \in {PollingOneLeg(w, c, bal, flipCount,
                         IF w.long.contracts # 0 THEN "long" ELSE "short", f)}})

\* A startup that resumes the symbol whatever the exchange reports.
ResumeAlways(w) == "SYM"

\* PositionTracker.check_and_resume_positions(): the symbol to resume, when
\* the exchange reports an open position.
CheckAndResumePositions(w) ==
    IF w.long.contracts # 0 \/ w.short.contracts # 0 THEN "SYM" ELSE "none"

----------------------------------------------------------------------------
(* The orchestrator as a state machine: the run loop of run_async with the *)
(* exchange acting between the bot's handlers.                             *)

MaxHistory == 6

\* The number of calls of the exchange that fail in one behaviour, and the
\* number of executions a behaviour is followed to after a call failed.
MaxFaults == 1
MaxFaultHistory == 4

StartPrice    == 100
Balances      == {1, 100}
OrchMaxFlips  == {0, 2}
ScannerPicks  == {"none", "LONG", "SHORT"}

Init ==
    /\ IdleTracker
    /\ \E mf \in OrchMaxFlips : cfg = Config(RInt(2), mf, RInt(1), RInt(10), RInt(1))
    /\ call = NoCall
    /\ sizes = <<>>
    /\ quote = NoQuote
    /\ trail = NoTrail
    /\ fetch = NoFetch
    /\ exch = [long |-> NoLeg, short |-> NoLeg, orders |-> <<>>,
               price |-> StartPrice]
    /\ balance \in Balances
    /\ active_coin = "none"
    /\ current_flip_count = 0
    /\ pc = "cycle"
    /\ placed = NoPlacement
    /\ parked = NoBook
    /\ stream = "closed"
    /\ polling = FALSE
    /\ did = NoStep
    /\ faults = 0

\* The handler's effect on the exchange becomes the exchange's state.
Commit(w) ==
    /\ exch' = [long |-> w.long, short |-> w.short, orders |-> w.orders,
                price |-> w.price]
    /\ fills' = w.fills

HasLong  == exch.long.contracts # 0
HasShort == exch.short.contracts # 0

\* The other instrument has an open position.
ParkedOpen == parked.long.contracts # 0 \/ parked.short.contracts # 0

\* The executions of both instruments.
History == Len(fills) + Len(parked.fills)

\* The history has room for n more executions.
Room(n) ==
    History + n <= (IF faults = 0 THEN MaxHistory ELSE MaxFaultHistory)

\* The history of the exchange a handler leaves has room in the behaviour.
Fits(w) ==
    Len(w.fills) + Len(parked.fills)
        <= (IF faults = 0 THEN MaxHistory ELSE MaxFaultHistory)

\* The handler that ran last and the fault of its step; a failing call is
\* counted, and calls fail while the history has room left after them.
Step(op, f) ==
    /\ did' = [op |-> op, fault |-> f]
    /\ f # "none" => (faults < MaxFaults /\ History < MaxFaultHistory)
    /\ faults' = IF f = "none" THEN faults ELSE faults + 1

\* A fetch of the positions that answers the empty list when it fails.
FetchOpenPositionsOrNothing(w, f) ==
    [ok |-> TRUE,
     long  |-> IF f = "positions" THEN NoLeg ELSE w.long,
     short |-> IF f = "positions" THEN NoLeg ELSE w.short,
     elsewhere |-> f # "positions" /\ ParkedOpen]

\* BybitClient.fetch_open_positions(): the open positions of the account,
\* `ok` FALSE for the error value None.  watch_positions yields no snapshot
\* for the error value.
FetchOpenPositions(w, f) ==
    [ok |-> f # "positions", long |-> w.long, short |-> w.short,
     elsewhere |-> ParkedOpen]

\* The exchange as the handler that fetched positions p sees it.
Seen(w, p) == [w EXCEPT !.long = p.long, !.short = p.short]

\* The exchange as a handler sees it after its fetch under fault f.
Fetched(w, f) == Seen(w, FetchOpenPositions(w, f))

\* A fault is felt in a step when it changes what the step does: a call
\* the step does not make cannot fail in it.  `outcome` maps the fault and
\* "none" to what the handler does under each.
Felt(f, outcome) == f = "none" \/ outcome[f] # outcome["none"]

\* start_cycle() with an active symbol: both legs open are cleaned up, one
\* open leg is checked against its trigger and, when not triggered, its
\* orders are reconciled.
ResumePosition(w, c, bal, f) ==
    IF w.long.contracts # 0 /\ w.short.contracts # 0
    THEN The({[w |-> r.w, placed |-> r.placed] :
              r \in {HandleFlipCleanup(w, c, bal, f)}})
    ELSE IF w.long.contracts # 0 \/ w.short.contracts # 0
    THEN The({The({IF m.triggered THEN [w |-> m.w, placed |-> m.placed]
                   ELSE ReconcileOrders(m.w, c, bal, side, LegOf(w, side), f) :
                   m \in {CheckManualFlipTrigger(w, c, bal, side, f)}}) :
              side \in {IF w.long.contracts # 0 THEN "long" ELSE "short"}})
    ELSE [w |-> w, placed |-> placed]

\* start_cycle() under fault f: with an active symbol the position is
\* resumed, without one a new cycle is started when the exchange reports no
\* open position and the scanner picks a candidate.  An exception leaves
\* start_cycle for the handler of the run loop, which starts over.
StartCycleOn(f) ==
    /\ pc = "cycle"
    /\ Room(3)
    /\ \E p \in {FetchOpenPositions(World, f)} :
       IF ~p.ok
       THEN UNCHANGED <<exch, fills, placed, pc, active_coin>>
       ELSE IF active_coin # "none"
       THEN /\ \E o \in {[g \in {f, "none"} |->
                      ResumePosition(Fetched(World, g), cfg, balance, g)]} :
                   /\ Felt(f, o)
                   /\ Commit(o[f].w)
                   /\ placed' = o[f].placed
            /\ pc' = "watch_start"
            /\ UNCHANGED active_coin
       ELSE IF p.long.contracts # 0 \/ p.short.contracts # 0 \/ p.elsewhere
       THEN /\ f = "none"
            /\ UNCHANGED <<exch, fills, placed, pc, active_coin>>
       ELSE \E pick \in ScannerPicks :
              IF pick = "none"
              THEN /\ f = "none"
                   /\ UNCHANGED <<exch, fills, placed, pc, active_coin>>
              ELSE IF f = "positions_again"
              THEN /\ active_coin' = "SYM"
                   /\ UNCHANGED <<exch, fills, placed, pc>>
              ELSE \E o \in {[g \in {f, "none"} |->
                         PlaceInitialEntry(World, cfg, balance, pick,
                             TickerOf(World), g)]} :
                   \E r \in {o[f]} :
                       /\ Felt(f, o)
                       /\ Commit(r.w)
                       /\ placed' = r.placed
                       /\ active_coin' = IF r.active THEN "SYM" ELSE "none"
                       /\ pc' = IF r.active THEN "watch_start" ELSE "cycle"
    /\ Step("start_cycle", f)
    /\ UNCHANGED <<derived, analysed, repeated, sizingVars, rangeVars,
                   balance, current_flip_count, parked, stream, polling>>

StartCycle == StartCycleOn("none")

\* monitor_position_websocket(symbol), before the stream is read: the flip
\* count is derived from the fills and the position stream is opened.
StartMonitor ==
    /\ pc = "watch_start"
    /\ current_flip_count' = AnalyzePositionState(fills).flip_count
    /\ pc' = "watch"
    /\ stream' = "open"
    /\ UNCHANGED <<trackerVars, sizingVars, rangeVars, exch, balance,
                   active_coin, placed, parked, polling, did, faults>>

\* A fallback that starts the polling pass beside the stream it leaves open.
PollBesideStream(w) ==
    /\ pc' = "poll"
    /\ stream' = stream
    /\ polling' = TRUE
    /\ current_flip_count' = AnalyzePositionState(w.fills).flip_count

\* The stream's iteration ends with an error: one polling pass is started,
\* which first derives the flip count from the fills.
FallBackToPolling(w) ==
    /\ pc' = "poll"
    /\ stream' = "failed"
    /\ polling' = TRUE
    /\ current_flip_count' = AnalyzePositionState(w.fills).flip_count

\* monitor_position_websocket(symbol), one snapshot of the position stream
\* under fault f.  watch_positions yields no snapshot when its fetch of the
\* positions fails.  The cycle complete, the function returns to the run
\* loop; a call that raised out of the body ends the stream's iteration.
MonitorSnapshotOn(f) ==
    /\ pc = "watch"
    /\ IF ~FetchOpenPositions(World, f).ok
       THEN UNCHANGED <<exch, fills, placed, current_flip_count, pc,
                        active_coin, stream, polling>>
       ELSE /\ \E o \in {[g \in {f, "none"} |->
                          MonitorPositionWebsocket(Fetched(World, g), cfg,
                              balance, current_flip_count, g)]} :
               \E r \in {o[f]} :
                   /\ Felt(f, o)
                   /\ Fits(r.w)
                   /\ Commit(r.w)
                   /\ placed' = r.placed
                   /\ active_coin' = IF r.complete THEN "none" ELSE active_coin
                   /\ IF r.complete
                      THEN /\ pc' = "cycle"
                           /\ stream' = "closed"
                           /\ UNCHANGED <<current_flip_count, polling>>
                      ELSE IF r.raised
                      THEN FallBackToPolling(r.w)
                      ELSE /\ current_flip_count' = r.flip_count
                           /\ UNCHANGED <<pc, stream, polling>>
    /\ Step("stream", f)
    /\ UNCHANGED <<derived, analysed, repeated, sizingVars, rangeVars,
                   balance, parked>>

MonitorSnapshot == MonitorSnapshotOn("none")

\* watch_positions raises: the connection of the stream is lost.
StreamFails ==
    /\ pc = "watch"
    /\ FallBackToPolling(World)
    /\ did' = [op |-> "stream", fault |-> "stream"]
    /\ UNCHANGED <<trackerVars, sizingVars, rangeVars, exch, balance,
                   active_coin, placed, parked, faults>>

\* manage_active_position_polling(symbol, run_once=True), one iteration of
\* its loop under fault f.  The pass goes on after a failed fetch, a
\* cleanup and an immediate flip or stop; it returns when the cycle is
\* complete, when one leg is open and not triggered, and on an exception.
PollingPassOn(f) ==
    /\ pc = "poll"
    /\ IF ~FetchOpenPositions(World, f).ok
       THEN UNCHANGED <<exch, fills, placed, current_flip_count, pc,
                        active_coin, stream, polling>>
       ELSE /\ \E o \in {[g \in {f, "none"} |->
                          ManageActivePositionPolling(Fetched(World, g), cfg,
                              balance, current_flip_count, g)]} :
               \E r \in {o[f]} :
                   /\ Felt(f, o)
                   /\ Fits(r.w)
                   /\ Commit(r.w)
                   /\ placed' = r.placed
                   /\ current_flip_count' = r.flip_count
                   /\ active_coin' = IF r.complete THEN "none" ELSE active_coin
                   /\ IF r.complete
                      THEN /\ pc' = "cycle"
                           /\ stream' = "closed"
                           /\ polling' = FALSE
                      ELSE IF (HasLong # HasShort) /\ (~r.triggered \/ r.raised)
                      THEN /\ pc' = "watch_start"
                           /\ polling' = FALSE
                           /\ UNCHANGED stream
                      ELSE UNCHANGED <<pc, stream, polling>>
    /\ Step("polling", f)
    /\ UNCHANGED <<derived, analysed, repeated, sizingVars, rangeVars,
                   balance, parked>>

\* The process is stopped and started again: TradingBot.__init__ resumes the
\* symbol of an open position, and the run loop starts over.  When only the
\* other instrument has an open position, that instrument is resumed.
Restart ==
    /\ IF ~HasLong /\ ~HasShort /\ ParkedOpen
       THEN /\ Commit(parked)
            /\ parked' = World
            /\ active_coin' = CheckAndResumePositions(parked)
       ELSE /\ active_coin' = CheckAndResumePositions(World)
            /\ UNCHANGED <<exch, fills, parked>>
    /\ current_flip_count' = 0
    /\ pc' = "cycle"
    /\ stream' = "closed"
    /\ polling' = FALSE
    /\ did' = NoStep
    /\ UNCHANGED <<derived, analysed, repeated, sizingVars, rangeVars,
                   balance, placed, faults>>

\* The prices the market visits: the start price and the prices of the
\* open orders.
PriceLevels ==
    {StartPrice} \cup {exch.orders[i].price : i \in DOMAIN exch.orders}

PriceMove ==
    /\ \E p \in PriceLevels \ {exch.price} : exch' = [exch EXCEPT !.price = p]
    /\ UNCHANGED <<trackerVars, sizingVars, rangeVars, balance, active_coin,
                   current_flip_count, pc, placed, parked, stream, polling,
                   did, faults>>

RemoveAt(seq, i) == SubSeq(seq, 1, i - 1) \o SubSeq(seq, i + 1, Len(seq))

\* The exchange takes order i off the book and executes it at price p.
ExchangeExecutes(i, p) ==
    LET o  == exch.orders[i]
        w1 == [World EXCEPT !.orders = RemoveAt(@, i)]
    IN  /\ Room(1)
        /\ \E w \in {Execute(w1, o.side, o.amount, p, o.position_side)} :
               Commit(w)
        /\ UNCHANGED <<derived, analysed, repeated, sizingVars, rangeVars,
                       balance, active_coin, current_flip_count, pc, placed,
                       parked, stream, polling, did, faults>>

\* A resting limit order is filled when the price reaches its limit.
ExchangeFillsLimit ==
    \E i \in DOMAIN exch.orders :
        /\ exch.orders[i].kind = "limit"
        /\ IF exch.orders[i].side = "sell"
           THEN exch.price >= exch.orders[i].price
           ELSE exch.price <= exch.orders[i].price
        /\ ExchangeExecutes(i, exch.orders[i].price)

\* A conditional flip order is triggered when the price falls to the
\* trigger (opening a short) or rises to it (opening a long), and its limit
\* order at the trigger price is filled.
ExchangeTriggersFlip ==
    \E i \in DOMAIN exch.orders :
        /\ IsFlipOrder(exch.orders[i])
        /\ IF exch.orders[i].position_side = "short"
           THEN exch.price <= exch.orders[i].price
           ELSE exch.price >= exch.orders[i].price
        /\ ExchangeExecutes(i, exch.orders[i].price)

\* A conditional stop-loss is triggered when the price falls to the trigger
\* (on a long) or rises to it (on a short), and closes the leg at market.
ExchangeTriggersStop ==
    \E i \in DOMAIN exch.orders :
        /\ IsStopLoss(exch.orders[i])
        /\ IF exch.orders[i].position_side = "long"
           THEN exch.price <= exch.orders[i].price
           ELSE exch.price >= exch.orders[i].price
        /\ ExchangeExecutes(i, exch.price)

Next ==
    \/ StartCycle
    \/ StartMonitor
    \/ MonitorSnapshot
    \/ Restart
    \/ PriceMove
    \/ ExchangeFillsLimit
    \/ ExchangeTriggersFlip
    \/ ExchangeTriggersStop

Spec == Init /\ [][Next]_vars

----------------------------------------------------------------------------
(* The orchestrator against an exchange whose calls fail.                  *)

StartCycleFaulty == \E f \in Faults : StartCycleOn(f)

MonitorSnapshotFaulty == \E f \in Faults : MonitorSnapshotOn(f)

PollingPass == \E f \in Faults : PollingPassOn(f)

NextFaults ==
    \/ StartCycleFaulty
    \/ StartMonitor
    \/ MonitorSnapshotFaulty
    \/ StreamFails
    \/ PollingPass
    \/ Restart
    \/ PriceMove
    \/ ExchangeFillsLimit
    \/ ExchangeTriggersFlip
    \/ ExchangeTriggersStop

\* The failing calls are followed on the configuration that allows flips.
InitFaults == Init /\ cfg.max_flips = 2

SpecFaults == InitFaults /\ [][NextFaults]_vars

----------------------------------------------------------------------------
(* The orchestrator with two instruments: the scanner may pick the other   *)
(* instrument, whose book is kept aside with the orders left on it.        *)

\* start_cycle() when the scanner picks the other instrument: the two books
\* change places and the entry is placed on the book now in front.
StartCycleElsewhere ==
    /\ pc = "cycle"
    /\ active_coin = "none"
    /\ Room(1)
    /\ ~HasLong /\ ~HasShort /\ ~ParkedOpen
    /\ \E pick \in ScannerPicks \ {"none"} :
       \E r \in {PlaceInitialEntry(parked, cfg, balance, pick,
                                 TickerOf(parked), "none")} :
           /\ Commit(r.w)
           /\ placed' = r.placed
           /\ active_coin' = IF r.active THEN "SYM" ELSE "none"
           /\ pc' = IF r.active THEN "watch_start" ELSE "cycle"
    /\ parked' = World
    /\ Step("start_cycle", "none")
    /\ UNCHANGED <<derived, analysed, repeated, sizingVars, rangeVars,
                   balance, current_flip_count, stream, polling>>

\* A conditional flip order left on the other instrument is triggered and
\* filled at its price.
ExchangeTriggersParked ==
    \E i \in DOMAIN parked.orders :
        /\ IsFlipOrder(parked.orders[i])
        /\ Room(1)
        /\ parked' = Execute([parked EXCEPT !.orders = RemoveAt(@, i),
                                            !.price = parked.orders[i].price],
                             parked.orders[i].side, parked.orders[i].amount,
                             parked.orders[i].price,
                             parked.orders[i].position_side)
        /\ UNCHANGED <<trackerVars, sizingVars, rangeVars, exch, balance,
                       active_coin, current_flip_count, pc, placed, stream,
                       polling, did, faults>>

NextInstruments ==
    \/ Next
    \/ StartCycleElsewhere
    \/ ExchangeTriggersParked

SpecInstruments == Init /\ [][NextInstruments]_vars

----------------------------------------------------------------------------
(* Claims about the orchestrator, checked under Spec.                      *)

\* C9: wherever the trigger-level order of an open position is placed
\* (after the initial entry, after a flip cleanup, on reconciliation at
\* resume), when the available balance does not cover the computed next
\* flip size the order placed is the reduce-only stop-loss and not the
\* order that opens the opposite leg.
C9_StopLossWhenBalanceInsufficient ==
    (placed.site # "none" /\ ~placed.sufficient) => placed.order = "stop"

OpenOrders(Is(_)) == {i \in DOMAIN exch.orders : Is(exch.orders[i])}

\* The bot is between two snapshots of the position stream and exactly one
\* leg is open.
MonitoringOneLeg == pc = "watch" /\ (HasLong # HasShort)

\* The sizing decision for the open leg: stop when the next size is 0 or
\* the balance does not cover it.
DecisionSaysStop ==
    LET leg == IF HasLong THEN exch.long ELSE exch.short
    IN  ShouldStop(CalculateNextPosition(cfg,
                       AnalyzePositionState(fills).flip_count,
                       RMul(Contracts(leg), leg.entry)),
                   balance)

\* C10: whenever the bot monitors a single open leg, the open orders are
\* exactly one reduce-only take-profit and exactly one trigger-level order,
\* which is a stop-loss if and only if the sizing decision says stop; a
\* flip order and a stop-loss are never open together.
C10_OneTakeProfitOneTrigger ==
    MonitoringOneLeg =>
        /\ Cardinality(OpenOrders(IsTakeProfit)) = 1
        /\ Cardinality(OpenOrders(IsFlipOrder))
             + Cardinality(OpenOrders(IsStopLoss)) = 1
        /\ Len(exch.orders) = 2
        /\ (OpenOrders(IsStopLoss) # {}) <=> DecisionSaysStop
        /\ ~(OpenOrders(IsFlipOrder) # {} /\ OpenOrders(IsStopLoss) # {})

----------------------------------------------------------------------------
(* Claims about the instruments, checked under SpecInstruments.            *)

\* An instrument is in use when it has an open position or is the active
\* symbol of a cycle.
FrontInUse == HasLong \/ HasShort \/ active_coin # "none"

\* A step of start_cycle that began without an active symbol and acted on
\* the exchange.
ActsFromIdle ==
    /\ StartCycleFaulty \/ StartCycleElsewhere
    /\ active_coin = "none"
    /\ exch' # exch

\* C11, its premise: the opening entry of a cycle is placed only while no
\* symbol is active and after the positions were fetched successfully and
\* none was open on any instrument.
C11_ScanOnlyWhenFlat ==
    [][ActsFromIdle =>
           (did'.fault # "positions" /\ ~HasLong /\ ~HasShort /\ ~ParkedOpen)]_vars

\* C11: the scanner is called and the opening entry placed only from IDLE
\* and only after the positions were fetched with an empty result, so that
\* in every reachable state at most one instrument has an open position or
\* an active cycle.
C11_AtMostOneInstrument == ~(ParkedOpen /\ FrontInUse)

----------------------------------------------------------------------------
(* Claims about the handlers under failing calls, checked under            *)
(* SpecFaults.                                                             *)

\* The side of the open leg when one leg is open.
OpenSide == IF HasLong THEN "long" ELSE "short"

\* The world reconcile_orders leaves when run on world w for the open leg,
\* every call succeeding.
Reconciled(w) ==
    ReconcileOrders(w, cfg, balance, OpenSide, LegOf(World, OpenSide), "none").w

\* C12: reconcile_orders is idempotent and independent of the prior order
\* book: on every reachable book with one open leg, the open orders after it
\* are exactly the take-profit of the leg and the trigger-level order the
\* derived state dictates (a stop-loss when the sizing decision says stop,
\* the flip order otherwise), the same as on an empty book, and running it
\* again leaves the same orders.
C12_ReconcileIsIdempotent ==
    (HasLong # HasShort) =>
        \E r \in {Reconciled(World)} :
            /\ Len(r.orders) = 2
            /\ IsTakeProfit(r.orders[1])
            /\ r.orders[1].position_side = OpenSide
            /\ r.orders[1].amount = LegOf(World, OpenSide).contracts
            /\ IF DecisionSaysStop THEN IsStopLoss(r.orders[2])
                                   ELSE IsFlipOrder(r.orders[2])
            /\ r.orders = Reconciled([World EXCEPT !.orders = <<>>]).orders
            /\ Reconciled(r).orders = r.orders

\* C12 witness: reconcile_orders ran at resume, every call succeeding, and
\* left the two orders.
C12_Witness ==
    /\ did = [op |-> "start_cycle", fault |-> "none"]
    /\ placed.site = "reconcile"
    /\ pc = "watch_start"
    /\ HasLong # HasShort
    /\ Len(exch.orders) = 2

\* C13: on the same positions, price, flip count and balance the streaming
\* monitor and the polling monitor take the same decision: the same
\* exchange actions (cleanup, cycle completion, immediate market flip,
\* immediate stop-loss, or nothing) leaving the same orders, legs and
\* executions, the same flip count and the same active symbol, whichever
\* call fails.
C13_StreamAndPollingAgree ==
    pc \in {"watch", "poll"} =>
        \A f \in Faults \ {"positions"} :
            MonitorPositionWebsocket(World, cfg, balance, current_flip_count, f)
              = ManageActivePositionPolling(World, cfg, balance,
                                            current_flip_count, f)

\* C13 witness: the polling pass acted on one open leg past its trigger and
\* goes on, as the stream would.
C13_Witness ==
    /\ did.op = "polling"
    /\ pc = "poll"
    /\ HasLong # HasShort
    /\ placed.site = "cleanup"
    /\ current_flip_count > 0

----------------------------------------------------------------------------
(* The stream and the polling fallback.                                    *)

\* C14: the streaming monitor and the polling fallback are never active at
\* the same time: no state has the polling pass running while the stream is
\* open; a step that starts the polling pass is a step in which the open
\* stream's iteration ends with an error; and a step that opens the stream
\* is taken when no polling pass is running.
C14_StreamAndPollingSerialized ==
    /\ [](~(polling /\ stream = "open"))
    /\ [][/\ (polling' /\ ~polling) => (stream = "open" /\ stream' = "failed")
          /\ (stream' = "open" /\ stream # "open") => (~polling /\ ~polling')]_vars

\* The stream has been opened again after a polling pass that returned.
C14_Witness ==
    /\ did.op = "polling"
    /\ stream = "open"
    /\ pc = "watch"
    /\ ~polling
    /\ faults = 1

----------------------------------------------------------------------------
(* The number of flips of a cycle.                                         *)

\* The value of a leg in the quote currency.
LegValue(leg) == RMul(Contracts(leg), leg.entry)

\* The largest position of a cycle: the initial size times the multiplier
\* to the power max_flips.
LargestPosition(c) == RMul(c.initial, RPow(c.multiplier, c.max_flips))

\* C15: within one cycle the orchestrator flips at most max_flips times, so
\* no leg is ever larger than initial_size * multiplier^max_flips.
C15_AtMostMaxFlips ==
    /\ RLe(LegValue(exch.long), LargestPosition(cfg))
    /\ RLe(LegValue(exch.short), LargestPosition(cfg))

----------------------------------------------------------------------------
(* Failed fetches of the positions.                                        *)

\* A step of a handler whose fetch of the positions failed.
FailedFetch == faults' = faults + 1 /\ did'.fault = "positions"

\* A step of a handler whose second fetch of the positions failed.
FailedSecondFetch == faults' = faults + 1 /\ did'.fault = "positions_again"

\* C16: a failed fetch of the positions is never handled as "no position".
\* In the step of start_cycle, of the stream or of the polling loop whose
\* fetch fails, no order is placed, cancelled or executed, the cycle is not
\* declared complete and the active symbol is not cleared; when the fetch
\* that follows the scanner's pick fails, no entry is placed, and no failed
\* second fetch ends the cycle.
C16_FailedFetchIsNotFlat ==
    [][/\ FailedFetch =>
             /\ exch' = exch
             /\ fills' = fills
             /\ active_coin' = active_coin
             /\ pc' = pc
       /\ FailedSecondFetch =>
             /\ active_coin' # "none"
             /\ pc' = "cycle" => pc = "cycle"
             /\ active_coin = "none" => (exch' = exch /\ fills' = fills)]_vars

\* The fetch of the stream failed while a leg was open under its orders.
C16_Witness ==
    /\ did = [op |-> "stream", fault |-> "positions"]
    /\ pc = "watch"
    /\ active_coin = "SYM"
    /\ HasLong # HasShort
    /\ Len(exch.orders) = 2

----------------------------------------------------------------------------
(* Orders the exchange rejects.                                            *)

\* A step of a handler that holds one leg and whose market flip the
\* exchange rejects for insufficient funds.
FlipRejected ==
    /\ faults' = faults + 1
    /\ did'.fault = "insufficient"
    /\ HasLong # HasShort

\* C17: on every path that submits a market flip (stream, polling, trigger
\* check at resume), when the exchange rejects the flip for insufficient
\* funds the position is closed at market in the same step.
C17_RejectedFlipBecomesStop ==
    [][FlipRejected => (exch'.long.contracts = 0 /\ exch'.short.contracts = 0)]_vars

----------------------------------------------------------------------------
(* Exceptions while entering.                                              *)

\* A step of start_cycle from IDLE in which a call of place_initial_entry
\* raises.
EntryRaises ==
    /\ faults' = faults + 1
    /\ did'.op = "start_cycle"
    /\ did'.fault \notin {"positions", "positions_again"}
    /\ active_coin = "none"

\* C18: an exception raised while entering leaves the orchestrator in IDLE
\* with the active symbol cleared and no monitor started, and the entry is
\* not retried in the same call: the step executes at most the one entry
\* order.
C18_FailedEntryReturnsToIdle ==
    [][EntryRaises =>
           /\ active_coin' = "none"
           /\ pc' = "cycle"
           /\ stream' = "closed"
           /\ Len(fills') <= Len(fills) + 1]_vars

\* The placement of the trigger-level order raised after the entry and its
\* take-profit: the orchestrator is in IDLE.
C18_Witness ==
    /\ did = [op |-> "start_cycle", fault |-> "conditional"]
    /\ active_coin = "none"
    /\ pc = "cycle"
    /\ HasLong \/ HasShort
    /\ Len(exch.orders) = 1

----------------------------------------------------------------------------
(* The orchestrator started on any strategy configuration.                 *)

\* The martingale multipliers of a configuration file that the strategy
\* has no use for: a progression that does not increase.
StartupMultipliers == {Rat(1, 2), RInt(1)}

\* TradingBot.__init__ and TradeCalculator.__init__: the values of the
\* configuration file are copied into the components as they are read and
\* the bot is idle.
InitStartup ==
    /\ IdleTracker
    /\ \E m \in StartupMultipliers, mf \in OrchMaxFlips :
           cfg = Config(m, mf, RInt(1), RInt(10), RInt(1))
    /\ call = NoCall
    /\ sizes = <<>>
    /\ quote = NoQuote
    /\ trail = NoTrail
    /\ fetch = NoFetch
    /\ exch = [long |-> NoLeg, short |-> NoLeg, orders |-> <<>>,
               price |-> StartPrice]
    /\ balance \in Balances
    /\ active_coin = "none"
    /\ current_flip_count = 0
    /\ pc = "cycle"
    /\ placed = NoPlacement
    /\ parked = NoBook
    /\ stream = "closed"
    /\ polling = FALSE
    /\ did = NoStep
    /\ faults = 0

SpecStartup == InitStartup /\ [][Next]_vars

\* C19: a strategy configuration whose martingale multiplier is not above 1
\* is rejected at startup: the bot never enters and never places an order.
C19_InvalidConfigRejected ==
    ~RLt(RInt(1), cfg.multiplier) =>
        /\ active_coin = "none"
        /\ fills = <<>>
        /\ exch.orders = <<>>

----------------------------------------------------------------------------
(* A flip cleanup that fails part-way.                                     *)

\* The open legs of exchange state e are covered: with both legs open some
\* order is open, with one leg open its take-profit and its trigger-level
\* order (its stop-loss or the flip order opening the opposite leg) are.
Covered(e) ==
    IF e.long.contracts # 0 /\ e.short.contracts # 0
    THEN Len(e.orders) > 0
    ELSE IF e.long.contracts = 0 /\ e.short.contracts = 0
    THEN TRUE
    ELSE \E s \in {IF e.long.contracts # 0 THEN "long" ELSE "short"} :
           /\ \E i \in DOMAIN e.orders :
                  IsTakeProfit(e.orders[i]) /\ e.orders[i].position_side = s
           /\ \E i \in DOMAIN e.orders :
                  \/ IsStopLoss(e.orders[i]) /\ e.orders[i].position_side = s
                  \/ /\ IsFlipOrder(e.orders[i])
                     /\ e.orders[i].position_side = Opposite(s)

\* The last handler was a monitor whose flip cleanup failed at the
\* placement of the take-profit or of the trigger-level order.
CleanupFailed ==
    /\ did.op \in {"stream", "polling"}
    /\ did.fault \in {"limit", "conditional"}

\* The next pass of a monitor, in which every call succeeds.
NextPass ==
    /\ did' # did
    /\ did'.op \in {"stream", "polling"}
    /\ did'.fault = "none"

\* C20: a flip cleanup that fails part-way is followed by a step that
\* re-checks and restores the coverage: after the next pass of the monitor
\* the open legs are covered.
C20_FailedCleanupIsRestored ==
    [][(CleanupFailed /\ NextPass) => Covered(exch')]_vars


(***************************************************************************)
(* The end of a cycle.                                                     *)
(***************************************************************************)

\* A pass of the stream or of the polling loop that finds neither leg and
\* clears the active symbol.
CycleCompletes ==
    /\ pc \in {"watch", "poll"}
    /\ pc' = "cycle"
    /\ active_coin # "none"
    /\ active_coin' = "none"
    /\ did'.op \in {"stream", "polling"}

\* C21: when a snapshot shows neither leg of the active symbol, the pass
\* that clears the active symbol leaves no open order of the finished cycle
\* on the exchange: the orders are cancelled before the orchestrator is
\* back in IDLE.
C21_NoOrderLeftWhenIdle ==
    [][CycleCompletes => exch'.orders = <<>>]_vars

----------------------------------------------------------------------------
(* The shape of the derived state, checked under SpecTracker.              *)

\* C22: every state returned by analyze_position_state has in_position
\* equal to (net_quantity > tolerance), side none exactly when in_position
\* is false, net_quantity, average_entry and flip_count not negative, never
\* both in_position and cycle_complete; for an empty history in_position
\* and cycle_complete are false and flip_count is 0.
C22_DerivedStateIsWellFormed ==
    analysed =>
        /\ derived.in_position <=> (derived.net_quantity > EPS)
        /\ (derived.side = "none") <=> ~derived.in_position
        /\ derived.side \in {"none", "long", "short"}
        /\ derived.net_quantity >= 0
        /\ RLe(RInt(0), derived.average_entry)
        /\ derived.flip_count >= 0
        /\ ~(derived.in_position /\ derived.cycle_complete)
        /\ (fills = <<>> =>
              /\ ~derived.in_position
              /\ ~derived.cycle_complete
              /\ derived.flip_count = 0)

\* C22 witness: the analysis of an empty history, so that the last clause
\* is exercised.
C22_Witness ==
    /\ analysed
    /\ fills = <<>>
    /\ derived = AnalyzePositionState(<<>>)

\* An analysed history of three fills that leaves a residue of exactly the
\* tolerance: not a position, and a closed cycle.
C22_ResidueAtTolerance ==
    /\ analysed
    /\ Len(fills) = 3
    /\ derived.net_quantity = EPS
    /\ ~derived.in_position
    /\ derived.cycle_complete

----------------------------------------------------------------------------
(* The phases of the orchestrator, checked under SpecFaults.               *)

\* The process starts: TradingBot.__init__ ran.  The exchange is as it was.
Restarted == did' = NoStep /\ exch' = exch /\ fills' = fills /\ parked' = parked

\* The changes of the run loop's position: a cycle starts or is resumed,
\* the stream is opened, the stream completes the cycle or falls back to
\* polling, the polling pass completes the cycle or goes back to the
\* stream.
PhaseEdges ==
    {<<"cycle", "watch_start">>, <<"watch_start", "watch">>,
     <<"watch", "cycle">>, <<"watch", "poll">>,
     <<"poll", "cycle">>, <<"poll", "watch_start">>}

\* A snapshot or a polling pass finds both legs and runs the flip cleanup.
RunsFlipCleanup ==
    /\ HasLong /\ HasShort
    /\ did' # did \/ faults' # faults \/ exch' # exch
    /\ did'.op \in {"start_cycle", "stream", "polling"}

\* C23: the orchestrator moves along IDLE, ENTERING, MONITORING, FLIPPING
\* and back, CLOSED, IDLE.  The active symbol is set only from IDLE by
\* start_cycle, or at startup when a position is open; the position is
\* monitored only while a symbol is active; a flip cleanup never clears the
\* active symbol; the symbol is cleared only by the pass that finds the
\* cycle complete (a failed entry sets and clears it in one call of
\* start_cycle).
C23_PhasesFollowTheCycle ==
    /\ [](pc # "cycle" => active_coin # "none")
    /\ [][/\ (~Restarted /\ pc' # pc) => <<pc, pc'>> \in PhaseEdges
          /\ (~Restarted /\ active_coin = "none" /\ active_coin' # "none")
                => (pc = "cycle" /\ did'.op = "start_cycle"
                    /\ ~HasLong /\ ~HasShort)
          /\ (Restarted /\ active_coin' # "none")
                => (pc' = "cycle" /\ (HasLong' \/ HasShort'))
          /\ (~Restarted /\ pc = "cycle" /\ pc' # "cycle")
                => (did'.op = "start_cycle" /\ active_coin' # "none")
          /\ RunsFlipCleanup
                => (active_coin' = active_coin /\ (pc # "cycle" => pc' # "cycle"))
          /\ (~Restarted /\ active_coin # "none" /\ active_coin' = "none")
                => (CycleCompletes /\ ~HasLong /\ ~HasShort)
       ]_vars

\* C23 witness: a cycle that was entered, flipped and cleaned up, and then
\* completed by a snapshot that showed neither leg: the orchestrator is
\* back in IDLE.
C23_Witness ==
    /\ active_coin = "none"
    /\ pc = "cycle"
    /\ did.op \in {"stream", "polling"}
    /\ \E k \in 1..Len(fills) : IsFlipFill(fills, k)
    /\ ~HasLong /\ ~HasShort

----------------------------------------------------------------------------
(* The trailing exit of calc_engine.py, followed over the prices a         *)
(* position sees after its entry.                                          *)

\* a / b in percent.
Pct(a, b) == RMul(Rat(a, b), RInt(100))

\* check_trailing_exit(entry_price, current_price, peak_price, direction):
\* should_exit.  c holds exit_use_trailing, range_pct and
\* trailing_retracement_pct; peak 0 stands for None.
CheckTrailingExit(c, entry, current, peak, direction) ==
    IF ~c.exit_use_trailing THEN FALSE
    ELSE IF direction = "long"
    THEN IF RLt(Pct(current - entry, entry), c.range_pct) THEN FALSE
         ELSE /\ peak # 0
              /\ peak > entry
              /\ RLe(c.trailing_retracement_pct, Pct(peak - current, peak))
    ELSE IF RLt(Pct(entry - current, entry), c.range_pct) THEN FALSE
         ELSE /\ peak # 0
              /\ peak < entry
              /\ RLe(c.trailing_retracement_pct, Pct(current - peak, peak))

\* The prices a followed position sees, in ticks, around the entry price.
TrailEntry  == 100
TrailPrices == {80, 88, 90, 94, 96, 100, 104, 106, 110, 112, 120}

\* The price has reached range_pct profit from the entry.
ReachedActivation(t, price) ==
    IF t.direction = "long"
    THEN RLe(t.range_pct, Pct(price - t.entry, t.entry))
    ELSE RLe(t.range_pct, Pct(t.entry - price, t.entry))

\* The best price of the position so far: the highest for a long, the
\* lowest for a short.
PeakWith(t, price) ==
    IF t.direction = "long"
    THEN (IF price > t.peak THEN price ELSE t.peak)
    ELSE (IF price < t.peak THEN price ELSE t.peak)

\* A position is entered at the entry price, under a configuration with the
\* trailing exit on or off.
InitTrailing ==
    /\ IdleTracker
    /\ cfg = Config(RInt(2), 3, RInt(100), RInt(2), RInt(1))
    /\ call = NoCall
    /\ sizes = <<>>
    /\ quote = NoQuote
    /\ fetch = NoFetch
    /\ IdleBot
    /\ \E u \in BOOLEAN, d \in PosSides :
          trail = [exit_use_trailing |-> u, range_pct |-> RInt(10),
                   trailing_retracement_pct |-> RInt(5), entry |-> TrailEntry,
                   direction |-> d, price |-> TrailEntry, peak |-> TrailEntry,
                   activated |-> FALSE, called |-> FALSE,
                   should_exit |-> FALSE]

\* The price moves and the caller asks check_trailing_exit with the new
\* price and the best price so far.
TrailingTick ==
    /\ ~trail.should_exit
    /\ \E p \in TrailPrices :
          \E pk \in {PeakWith(trail, p)} :
             trail' = [trail EXCEPT
                          !.price = p,
                          !.peak = pk,
                          !.activated = @ \/ ReachedActivation(trail, p),
                          !.called = TRUE,
                          !.should_exit =
                              CheckTrailingExit(trail, trail.entry, p, pk,
                                                trail.direction)]
    /\ UNCHANGED <<trackerVars, sizingVars, quote, fetch, orchVars>>

NextTrailing == TrailingTick

SpecTrailing == InitTrailing /\ [][NextTrailing]_vars

\* The pullback of the current price from the best price, in percent of the
\* best price.
Pullback(t) ==
    IF t.direction = "long"
    THEN Pct(t.peak - t.price, t.peak)
    ELSE Pct(t.price - t.peak, t.peak)

\* C24: in trailing mode, once the price has reached range_pct profit from
\* the entry, check_trailing_exit answers should_exit on any later call
\* where the price has pulled back by at least trailing_retracement_pct from
\* the peak, also when the pullback took the price back under the
\* activation level; before activation, and with trailing disabled, it
\* answers FALSE.
C24_TrailingExitAfterActivation ==
    trail.called =>
        /\ ~trail.exit_use_trailing => ~trail.should_exit
        /\ ~trail.activated => ~trail.should_exit
        /\ (/\ trail.exit_use_trailing
            /\ trail.activated
            /\ RLe(trail.trailing_retracement_pct, Pullback(trail)))
              => trail.should_exit

\* What the source does: the answer is should_exit exactly when the current
\* price itself is at or beyond the activation level and has pulled back
\* by the retracement from the peak.
C24_ExitOnlyWhileBeyondActivation ==
    trail.called =>
        (trail.should_exit <=>
            /\ trail.exit_use_trailing
            /\ ReachedActivation(trail, trail.price)
            /\ RLe(trail.trailing_retracement_pct, Pullback(trail)))

\* A position that was activated and whose price pulled back by the
\* retracement to under the activation level.
C24_PulledBackUnderActivation ==
    /\ trail.called
    /\ trail.exit_use_trailing
    /\ trail.activated
    /\ ~ReachedActivation(trail, trail.price)
    /\ RLe(trail.trailing_retracement_pct, Pullback(trail))

----------------------------------------------------------------------------
(* fetch_all_fills of exchanges/bybit.py: the backward pagination over the *)
(* trades the exchange holds.                                              *)

\* The trades the exchange holds, the timestamps they carry (several trades
\* may carry one timestamp) and the size of a page (200 in the source).
MaxTrades == 4
MaxStamp  == 3
PageLimit == 2

\* A history the exchange can hold: n trades, oldest first, with the ids
\* 1..n.
HeldHistories ==
    UNION {{[k \in 1..n |-> [id |-> k, timestamp |-> h[k]]] :
              h \in {g \in [1..n -> 1..MaxStamp] :
                        \A k \in 1..(n - 1) : g[k] <= g[k + 1]}} :
           n \in 0..MaxTrades}

\* exchange.fetch_my_trades(symbol, limit, {'endTime': endTime}): the
\* latest `limit` trades up to endTime.
FetchMyTrades(held, endTime, limit) ==
    LET upTo == SelectSeq(held, LAMBDA t : t.timestamp <= endTime)
    IN  IF Len(upTo) <= limit THEN upTo
        ELSE SubSeq(upTo, Len(upTo) - limit + 1, Len(upTo))

\* {t['id']: t for t in ...}.values(): one entry for each id, in the order
\* the ids first appear.
RECURSIVE UniqueById(_)
UniqueById(ts) ==
    IF ts = <<>> THEN <<>>
    ELSE LET rest == UniqueById(SubSeq(ts, 1, Len(ts) - 1))
             last == ts[Len(ts)]
         IN  IF \E k \in 1..Len(rest) : rest[k].id = last.id
             THEN rest ELSE Append(rest, last)

\* sorted(..., key=timestamp): a stable sort by timestamp.
RECURSIVE SortFrom(_, _)
SortFrom(ts, stamp) ==
    IF stamp > MaxStamp THEN <<>>
    ELSE SelectSeq(ts, LAMBDA t : t.timestamp = stamp) \o SortFrom(ts, stamp + 1)

SortedByTimestamp(ts) == SortFrom(ts, 0)

\* The end of fetch_all_fills: filter by the start time, one entry for
\* each id, sorted by timestamp.
FinalTrades(allTrades, since) ==
    SortedByTimestamp(
        UniqueById(SelectSeq(allTrades, LAMBDA t : t.timestamp >= since)))

\* fetch_all_fills(symbol, start_time_ms) is called: the exchange holds a
\* history, end_time is now.
InitFetch ==
    /\ IdleTracker
    /\ cfg = Config(RInt(2), 3, RInt(100), RInt(2), RInt(1))
    /\ call = NoCall
    /\ sizes = <<>>
    /\ quote = NoQuote
    /\ trail = NoTrail
    /\ IdleBot
    /\ \E h \in HeldHistories, st \in 0..MaxStamp :
          fetch = [held |-> h, since |-> st, end_time |-> MaxStamp,
                   all_trades |-> <<>>, at |-> "loop", raised |-> FALSE,
                   pages |-> 0, final_trades |-> <<>>]

\* The function returns what it gathered.
Returns(allTrades, raised) ==
    fetch' = [fetch EXCEPT !.all_trades = allTrades, !.at = "done",
                           !.raised = raised,
                           !.pages = @ + 1,
                           !.final_trades = FinalTrades(allTrades, fetch.since)]

\* One iteration of the loop: a page is fetched; the loop ends on an empty
\* page, on a page that starts before the start time, on a page shorter
\* than the limit, and when the call raises; otherwise end_time moves to
\* just before the oldest trade of the page.
FetchPage ==
    /\ fetch.at = "loop"
    /\ \E trades \in {FetchMyTrades(fetch.held, fetch.end_time, PageLimit)} :
          IF trades = <<>>
          THEN Returns(fetch.all_trades, FALSE)
          ELSE IF trades[1].timestamp < fetch.since \/ Len(trades) < PageLimit
          THEN Returns(fetch.all_trades \o trades, FALSE)
          ELSE fetch' = [fetch EXCEPT !.all_trades = @ \o trades,
                                      !.pages = @ + 1,
                                      !.end_time = trades[1].timestamp - 1]
    /\ UNCHANGED <<trackerVars, sizingVars, quote, trail, orchVars>>

\* fetch_my_trades raises: the loop ends with the pages gathered so far.
FetchPageRaises ==
    /\ fetch.at = "loop"
    /\ Returns(fetch.all_trades, TRUE)
    /\ UNCHANGED <<trackerVars, sizingVars, quote, trail, orchVars>>

NextFetch == FetchPage \/ FetchPageRaises

SpecFetch == InitFetch /\ [][NextFetch]_vars

\* The trades of a list as a set.
Range(ts) == {ts[k] : k \in 1..Len(ts)}

\* The trades the exchange holds from the start time on.
HeldSince == {t \in Range(fetch.held) : t.timestamp >= fetch.since}

\* C25: fetch_all_fills returns a list sorted ascending by timestamp, with
\* no two entries sharing an id, holding only fills with timestamp >=
\* sinceMs and every such fill the exchange holds, for any number of pages
\* (checked on the calls in which no request raised).
C25_AllFillsSinceStart ==
    (fetch.at = "done" /\ ~fetch.raised) =>
        LET r == fetch.final_trades
        IN  /\ \A k \in 1..(Len(r) - 1) : r[k].timestamp <= r[k + 1].timestamp
            /\ \A j, k \in 1..Len(r) : r[j].id = r[k].id => j = k
            /\ \A k \in 1..Len(r) : r[k].timestamp >= fetch.since
            /\ HeldSince \subseteq Range(r)

\* What holds of every returned list, also after a request raised: sorted,
\* one entry for each id, only trades the exchange holds from the start
\* time on; and every continuing iteration moves end_time back, so that the
\* loop ends within one page more than the trades held.
C25_SortedUniqueFilteredAndEnds ==
    /\ [](fetch.at = "done" =>
            LET r == fetch.final_trades
            IN  /\ \A k \in 1..(Len(r) - 1) :
                      r[k].timestamp <= r[k + 1].timestamp
                /\ \A j, k \in 1..Len(r) : r[j].id = r[k].id => j = k
                /\ Range(r) \subseteq HeldSince)
    /\ [](fetch.pages <= Len(fetch.held) + 1)
    /\ [][(fetch.at = "loop" /\ fetch'.at = "loop")
             => fetch'.end_time < fetch.end_time]_vars

\* A call that read more than one page without a failure and lost a trade
\* that shares its timestamp with the oldest trade of a full page.
C25_LostAtPageBoundary ==
    /\ fetch.at = "done"
    /\ ~fetch.raised
    /\ fetch.pages >= 2
    /\ ~(HeldSince \subseteq Range(fetch.final_trades))

----------------------------------------------------------------------------
(* The cycle boundaries and the flip count, checked under SpecTracker.     *)

\* The boundaries (0-based indices into the history) the replay records:
\* 0; k when fill k (1-based: index k - 1) brings a position to zero and a
\* later fill exists; k - 1 when fill k takes the running quantity across
\* zero without touching it.
RecordedBoundaries(fs) ==
    {0}
    \cup {k \in 1..(Len(fs) - 1) :
             Abs(RunningAt(fs, k - 1)) > EPS /\ RunningAt(fs, k) = 0}
    \cup {k - 1 : k \in {j \in 1..Len(fs) : IsFlipFill(fs, j)}}

\* The last boundary recorded: boundaries are recorded in ascending order.
LastRecorded(fs) ==
    CHOOSE b \in RecordedBoundaries(fs) : \A c \in RecordedBoundaries(fs) : c <= b

BoundariesOfAnyQuantity(fs) ==
    {0}
    \cup {k \in 1..(Len(fs) - 1) :
             RunningAt(fs, k - 1) # 0 /\ RunningAt(fs, k) = 0}
    \cup {k - 1 : k \in {j \in 1..Len(fs) :
                           \/ RunningAt(fs, j - 1) > 0 /\ RunningAt(fs, j) < 0
                           \/ RunningAt(fs, j - 1) < 0 /\ RunningAt(fs, j) > 0}}

LastOfAnyQuantity(fs) ==
    CHOOSE b \in BoundariesOfAnyQuantity(fs) :
        \A c \in BoundariesOfAnyQuantity(fs) : c <= b

C26_ClosingFillRecordsNothing ==
    /\ analysed
    /\ Len(fills) = 2
    /\ Abs(RunningAt(fills, 1)) > EPS
    /\ RunningAt(fills, 2) = 0
    /\ derived.total_fills = 2

\* The side of the running quantity after the first k fills of a slice:
\* "none" within the tolerance of zero.
SideAt(fs, k) ==
    IF Abs(RunningAt(fs, k)) > EPS
    THEN (IF RunningAt(fs, k) > 0 THEN "long" ELSE "short")
    ELSE "none"

\* The fills of a slice after which the side is the opposite of the side
\* after the fill before.
DirectChanges(fs) ==
    {k \in 2..Len(fs) :
        /\ SideAt(fs, k - 1) # "none"
        /\ SideAt(fs, k) # "none"
        /\ SideAt(fs, k - 1) # SideAt(fs, k)}

\* C27: _count_flips increments the counter only when the side changes
\* directly from long to short or from short to long between two
\* consecutive fills; a change that passes through flat (running quantity
\* within the tolerance of zero after a fill in between) is not counted.
C27_OnlyDirectChangesCounted ==
    analysed =>
        derived.flip_count = Cardinality(DirectChanges(GetCurrentCycleFills(fills)))

\* The last fill of the slice before fill k that left a side, 0 when there
\* is none.
LastSided(fs, k) ==
    IF \E j \in 1..(k - 1) : SideAt(fs, j) # "none"
    THEN CHOOSE j \in 1..(k - 1) :
            /\ SideAt(fs, j) # "none"
            /\ \A i \in (j + 1)..(k - 1) : SideAt(fs, i) = "none"
    ELSE 0

\* What the source counts: every fill that leaves a side opposite to the
\* last side seen, flat fills in between or not.
C27_ChangesThroughFlatCounted ==
    analysed =>
        LET cf == GetCurrentCycleFills(fills)
        IN  derived.flip_count
              = Cardinality({k \in 2..Len(cf) :
                    /\ SideAt(cf, k) # "none"
                    /\ LastSided(cf, k) # 0
                    /\ SideAt(cf, LastSided(cf, k)) # SideAt(cf, k)})

\* An analysed slice whose side goes from long through flat to short, with
\* one flip counted.
C27_FlipThroughFlat ==
    /\ analysed
    /\ derived.total_fills = 3
    /\ SideAt(fills, 1) = "long"
    /\ SideAt(fills, 2) = "none"
    /\ SideAt(fills, 3) = "short"
    /\ derived.flip_count = 1

\* The fills the exchange can report.
FillTypes == {Fill(sd, a, p) : sd \in Sides, a \in Amounts, p \in Prices}

\* The histories of n fills.
RECURSIVE HistoriesOf(_)
HistoriesOf(n) ==
    IF n = 0 THEN {<<>>}
    ELSE {Append(h, f) : h \in HistoriesOf(n - 1), f \in FillTypes}

\* The histories that share with fs the position of the last boundary and
\* the fills from that boundary to the end.
SameCycleHistories(fs) ==
    {h \in {pre \o SubSeq(fs, LastBoundary(fs) + 1, Len(fs)) :
               pre \in HistoriesOf(LastBoundary(fs))} :
        LastBoundary(h) = LastBoundary(fs)}

\* C28: fills before the last cycle boundary have no influence on the
\* derived state of the current cycle: two histories that share the
\* position of the last boundary and the fills from it to the end give the
\* same realized_pnl, net_quantity, side, average_entry and flip_count,
\* whatever the earlier fills are.
C28_EarlierFillsHaveNoInfluence ==
    (analysed /\ fills # <<>>) =>
        \A h \in SameCycleHistories(fills) :
            \E other \in {AnalyzePositionState(h)} :
                /\ other.realized_pnl = derived.realized_pnl
                /\ other.net_quantity = derived.net_quantity
                /\ other.side = derived.side
                /\ other.average_entry = derived.average_entry
                /\ other.flip_count = derived.flip_count

\* C28 witness: an analysed history of three fills whose current cycle is
\* the last fill alone, with a position, and with another history of the
\* same cycle to compare with.
C28_Witness ==
    /\ analysed
    /\ Len(fills) = 3
    /\ LastBoundary(fills) = 2
    /\ derived.in_position
    /\ \E h \in SameCycleHistories(fills) : h # fills

----------------------------------------------------------------------------
(* The flip cleanup, checked under SpecFaults.                             *)

\* The faults a flip cleanup can meet.
CleanupFaults == {"none", "orders", "cancel", "close", "limit", "conditional"}

\* The exchange after the step is the exchange the handler's result r
\* describes.
Left(r) ==
    /\ exch' = [long |-> r.w.long, short |-> r.w.short,
                orders |-> r.w.orders, price |-> r.w.price]
    /\ fills' = r.w.fills

\* The step is a pass of a handler that found both legs open and ran the
\* flip cleanup under fault f.
CleanupRan(f) ==
    /\ HasLong /\ HasShort
    /\ did'.op \in {"start_cycle", "stream", "polling"}
    /\ did'.fault = f
    /\ faults' = (IF f = "none" THEN faults ELSE faults + 1)
    /\ \E r \in {HandleFlipCleanup(World, cfg, balance, f)} : Left(r)

\* The leg with fewer contracts and the leg with more, before the step.
SmallerSide == IF exch.long.contracts < exch.short.contracts THEN "long" ELSE "short"
LargerSide == Opposite(SmallerSide)

\* The orders the step placed: those on the book after it that were not
\* left from before.
PlacedBy(f) ==
    IF f = "orders" THEN <<>>
    ELSE IF f = "cancel" /\ Len(exch.orders) > 0
    THEN SubSeq(exch'.orders, 2, Len(exch'.orders))
    ELSE exch'.orders

\* C29: given both legs open, handle_flip_cleanup closes the smaller leg,
\* and only it, with one market order for that leg's full size on that
\* leg's position side; it never closes the larger leg; the take-profit
\* and the flip or stop-loss order it places are for the larger leg.
C29_CleanupClosesSmallerLeg ==
    [][\A f \in CleanupFaults :
          (CleanupRan(f) /\ exch.long.contracts # exch.short.contracts) =>
             /\ LegOf(exch', LargerSide) = LegOf(exch, LargerSide)
             /\ IF f \in {"orders", "close"}
                THEN fills' = fills /\ LegOf(exch', SmallerSide) = LegOf(exch, SmallerSide)
                ELSE /\ LegOf(exch', SmallerSide) = NoLeg
                     /\ fills' = Append(fills,
                                    Fill(ExitSide(SmallerSide),
                                         LegOf(exch, SmallerSide).contracts,
                                         exch.price))
             /\ \A k \in 1..Len(PlacedBy(f)) :
                   \E o \in {PlacedBy(f)[k]} :
                      /\ o.side = ExitSide(LargerSide)
                      /\ IsTakeProfit(o) =>
                            /\ o.position_side = LargerSide
                            /\ o.amount = LegOf(exch, LargerSide).contracts
                      /\ IsStopLoss(o) =>
                            /\ o.position_side = LargerSide
                            /\ o.amount = LegOf(exch, LargerSide).contracts
                      /\ IsFlipOrder(o) => o.position_side = SmallerSide
             /\ f = "none" =>
                   /\ Len(exch'.orders) = 2
                   /\ IsTakeProfit(exch'.orders[1])
                   /\ IsFlipOrder(exch'.orders[2]) \/ IsStopLoss(exch'.orders[2])
      ]_vars

\* C29 witness: a snapshot found both legs, the short leg the larger; the
\* long leg was closed by a sell of its full size, and the take-profit and
\* the trigger-level order of the short leg are on the book.
C29_Witness ==
    /\ did = [op |-> "stream", fault |-> "none"]
    /\ ~HasLong
    /\ HasShort
    /\ Len(fills) = 3
    /\ fills[1].side = "buy"
    /\ fills[2].side = "sell"
    /\ fills[2].amount > fills[1].amount
    /\ fills[3] = Fill("sell", fills[1].amount, exch.price)
    /\ Len(exch.orders) = 2
    /\ IsTakeProfit(exch.orders[1])
    /\ exch.orders[1].position_side = "short"

\* The orders that were open before the cleanup and are left open by its
\* cancellations under fault f.
StaleOrders(f) == CancelEach(World, f).orders

\* The cleanup of the step closed the old leg.
ClosedOldLeg == Len(fills') = Len(fills) + 1

\* The order of a cleanup as far as its step shows it: nothing is closed or
\* placed when the orders could not be fetched; when the old leg was closed
\* every order on the book was placed by the cleanup, the take-profit
\* before the trigger-level order; and the flip count carried on is the one
\* derived from the fills that include the close.
CleanupInOrder(f) ==
    /\ f = "orders" => (fills' = fills /\ exch' = exch)
    /\ ClosedOldLeg =>
          /\ StaleOrders(f) = <<>>
          /\ Len(exch'.orders) <= 2
          /\ Len(exch'.orders) >= 1 => IsTakeProfit(exch'.orders[1])
          /\ Len(exch'.orders) = 2 =>
                (IsFlipOrder(exch'.orders[2]) \/ IsStopLoss(exch'.orders[2]))
    /\ (f = "none" /\ did'.op \in {"stream", "polling"}) =>
          /\ ClosedOldLeg
          /\ Len(exch'.orders) = 2
          /\ current_flip_count' = AnalyzePositionState(fills').flip_count

\* C30: in a flip cleanup all open orders of the symbol are cancelled, then
\* the old leg is closed at market, then flip count and realized P&L are
\* derived from the fills, then the take-profit is placed, then the flip or
\* stop-loss order; no close or placement comes before the cancellations,
\* and no stale take-profit or flip order is open when the old leg is
\* closed.
C30_CancelCloseDerivePlace ==
    [][\A f \in CleanupFaults : CleanupRan(f) => CleanupInOrder(f)]_vars

\* With every call of the cleanup succeeding, and with a call other than
\* cancel_order failing, the cleanup keeps that order.
C30_InOrderUnlessCancelFails ==
    [][\A f \in CleanupFaults \ {"cancel"} :
          CleanupRan(f) => CleanupInOrder(f)]_vars

\* A cleanup closed the long leg while the take-profit of that leg was
\* still on the book: its cancellation had failed.
C30_StaleOrderAtClose ==
    /\ did.fault = "cancel"
    /\ ~HasLong
    /\ HasShort
    /\ Len(exch.orders) = 3
    /\ IsTakeProfit(exch.orders[1])
    /\ exch.orders[1].position_side = "long"

----------------------------------------------------------------------------
(* The bot started on an account that holds a position of one lot.         *)

\* The flip limits of the resumed cycle.
ResumedMaxFlips == {1, 2}

\* TradingBot.__init__ on an account whose earlier trading (a buy of two
\* lots, a sell of one) left a long position of one lot inside the fill
\* lookback: check_and_resume_positions makes its symbol the active one.
InitResumed ==
    /\ fills = <<Fill("buy", 2, StartPrice), Fill("sell", 1, StartPrice)>>
    /\ derived = EmptyState
    /\ analysed = FALSE
    /\ repeated = FALSE
    /\ \E mf \in ResumedMaxFlips :
           cfg = Config(RInt(2), mf, RInt(1), RInt(10), RInt(1))
    /\ call = NoCall
    /\ sizes = <<>>
    /\ quote = NoQuote
    /\ trail = NoTrail
    /\ fetch = NoFetch
    /\ exch = [long |-> [contracts |-> 1, entry |-> RInt(StartPrice)],
               short |-> NoLeg, orders |-> <<>>, price |-> StartPrice]
    /\ balance \in Balances
    /\ active_coin = CheckAndResumePositions(
                         [long |-> [contracts |-> 1, entry |-> RInt(StartPrice)],
                          short |-> NoLeg])
    /\ current_flip_count = 0
    /\ pc = "cycle"
    /\ placed = NoPlacement
    /\ parked = NoBook
    /\ stream = "closed"
    /\ polling = FALSE
    /\ did = NoStep
    /\ faults = 0

SpecResumed == InitResumed /\ [][NextFaults]_vars

\* A step of the monitoring loops that leaves the cycle open.
InsideCycle ==
    /\ pc \in {"watch", "poll"} /\ pc' \in {"watch", "poll"}
    /\ active_coin # "none" /\ active_coin' = active_coin
    /\ did'.op \in {"stream", "polling"}

\* C31: a cleanup run by a monitoring loop hands the loop the flip count
\* derived from the fills after the closing order, and no step of the loops
\* inside an open cycle lowers the flip count they hold, a failed cleanup
\* included.
C31_FlipCountNeverDecreases ==
    [][/\ CleanupRan("none") /\ InsideCycle
          => current_flip_count' = AnalyzePositionState(fills').flip_count
       /\ InsideCycle => current_flip_count' >= current_flip_count]_vars

\* C31, the failed cleanup alone: whenever a monitoring loop sees both legs
\* open, the cleanup it runs hands back a flip count that is not below the
\* one the loop holds, whichever call of the cleanup fails.
C31_KeptWhenCleanupFails ==
    (pc \in {"watch", "poll"} /\ HasLong /\ HasShort)
        => \A f \in CleanupFaults \ {"none"} :
               MonitorPositionWebsocket(World, cfg, balance,
                   current_flip_count, f).flip_count >= current_flip_count

\* The first iteration of the polling pass that follows a stream failure.
FirstPoll == pc = "poll" /\ did.op # "polling" /\ did'.op = "polling"

\* C32: a stream failure starts the polling pass, whose first position poll
\* ends it whatever the poll shows: the monitor goes back to the top of its
\* loop to open the stream again when a symbol is still active, and returns
\* to the run loop with the stream closed when the pass found the cycle
\* complete.
C32_OnePollThenStreamAgain ==
    [][/\ (pc = "watch" /\ did' = [op |-> "stream", fault |-> "stream"])
          => pc' = "poll"
       /\ FirstPoll
          => /\ pc' \in {"watch_start", "cycle"}
             /\ pc' = "cycle" <=> active_coin' = "none"
             /\ pc' = "cycle" => stream' = "closed"]_vars

\* C32, what the pass does: it ends on its first poll when the poll shows
\* no leg, or one leg whose trigger the price has not crossed, and when a
\* call raises; after a poll that failed, showed both legs or found the
\* trigger crossed it polls again.
C32_PollsAgainAfterEvent ==
    [][FirstPoll
          => /\ pc' \in {"poll", "watch_start", "cycle"}
             /\ pc' = "cycle" <=> active_coin' = "none"
             /\ pc' = "cycle" => stream' = "closed"
             /\ (~HasLong /\ ~HasShort /\ did'.fault # "positions")
                  => pc' = "cycle"
             /\ pc' = "poll"
                  => \/ did'.fault = "positions"
                     \/ HasLong /\ HasShort
                     \/ fills' # fills \/ exch'.orders # exch.orders]_vars

----------------------------------------------------------------------------
(* The initial entry on its own: the price moves between the quote and the *)
(* execution, and the position is read back or not.                        *)

\* The last prices place_initial_entry is quoted and the prices the market
\* has when the entry order arrives.
QuotedPrices   == {95, 100}
ArrivalPrices  == {95, 100, 105}

\* What the read of the position after the entry order answers.
Rereads == {"none", "positions_again", "unpriced"}

\* The ticker that quotes the last price q without spread.
TickerAt(q) ==
    [ok |-> TRUE, marketOk |-> TRUE, last |-> RInt(q), ask |-> RInt(q),
     bid |-> RInt(q)]

\* The bot idle on an empty account, the entry order market or limit as
\* market_orders_cycle_start says.
InitEntry ==
    /\ IdleTracker
    /\ \E mf \in OrchMaxFlips, market \in BOOLEAN :
           cfg = [Config(RInt(2), mf, RInt(1), RInt(10), RInt(1))
                      EXCEPT !.market_orders_cycle_start = market]
    /\ call = NoCall
    /\ sizes = <<>>
    /\ quote = NoQuote
    /\ trail = NoTrail
    /\ fetch = NoFetch
    /\ \E p \in ArrivalPrices :
           exch = [long |-> NoLeg, short |-> NoLeg, orders |-> <<>>,
                   price |-> p]
    /\ balance \in Balances
    /\ active_coin = "none"
    /\ current_flip_count = 0
    /\ pc = "cycle"
    /\ placed = NoPlacement
    /\ parked = NoBook
    /\ stream = "closed"
    /\ polling = FALSE
    /\ did = NoStep
    /\ faults = 0

\* start_cycle() on the empty account with a candidate of the scanner:
\* place_initial_entry with the price it was quoted, on the market as it is
\* when the entry order arrives.
EnterCycle ==
    /\ pc = "cycle"
    /\ active_coin = "none"
    /\ \E pick \in {"LONG", "SHORT"}, q \in QuotedPrices, f \in Rereads :
          \E r \in {PlaceInitialEntry(World, cfg, balance, pick,
                                      TickerAt(q), f)} :
              /\ Commit(r.w)
              /\ placed' = r.placed
              /\ active_coin' = IF r.active THEN "SYM" ELSE "none"
              /\ pc' = IF r.active THEN "watch_start" ELSE "cycle"
              /\ quote' = [NoQuote EXCEPT
                              !.made = TRUE,
                              !.side = IF pick = "LONG" THEN "long" ELSE "short",
                              !.ticker = TickerAt(q),
                              !.price = RInt(q)]
              /\ did' = [op |-> "place_initial_entry", fault |-> f]
    /\ UNCHANGED <<derived, analysed, repeated, sizingVars, trail, fetch,
                   balance, current_flip_count, parked, stream, polling,
                   faults>>

NextEntry == EnterCycle

SpecEntry == InitEntry /\ [][NextEntry]_vars

\* The leg of the entry after place_initial_entry, and whether the handler
\* could read it: the read answered, the leg is open and has a price.
EntryLeg == LegOf(World, quote.side)
EntryRead == did.fault = "none" /\ EntryLeg.contracts # 0

\* The price and the size the dependent orders are to be computed from.
BasisPrice == IF EntryRead THEN EntryLeg.entry ELSE quote.price
BasisSize ==
    IF EntryRead THEN Contracts(EntryLeg)
    ELSE RDiv(CalculatePositionSize(cfg, balance), quote.price)

\* The take-profit and the trigger-level order for the basis.
DependentOrders ==
    LET range == CalculateRange(cfg, 0)
        next  == CalculateNextPosition(cfg, 0, RMul(BasisSize, BasisPrice))
        trigger == FlipTriggerPrice(BasisPrice, quote.side, range)
        exit  == ExitSide(quote.side)
    IN  <<[kind |-> "limit", side |-> exit, amount |-> ToLots(BasisSize),
           price |-> PriceToTick(TakeProfitPrice(BasisPrice, quote.side, range)),
           position_side |-> quote.side, order_type |-> "Limit",
           reduce_only |-> TRUE],
          IF next = RInt(0)
          THEN [kind |-> "conditional", side |-> exit,
                amount |-> ToLots(BasisSize), price |-> PriceToTick(trigger),
                position_side |-> quote.side, order_type |-> "Market",
                reduce_only |-> TRUE]
          ELSE [kind |-> "conditional", side |-> exit,
                amount |-> ToLots(RDiv(next, trigger)),
                price |-> PriceToTick(trigger),
                position_side |-> Opposite(quote.side),
                order_type |-> "Limit", reduce_only |-> FALSE]>>

\* C33: after place_initial_entry the two dependent orders are on the book,
\* the take-profit first, priced and sized from the entry price and size of
\* the position when the read after the entry order showed it with a price,
\* and from the quoted price and the size computed from it when the read
\* failed, showed no position of the side, or showed entry price 0; the
\* symbol stays active in each case.
C33_DependentOrdersFromPositionOrEstimate ==
    did.op = "place_initial_entry"
        => /\ active_coin = "SYM"
           /\ Len(exch.orders) >= 2
           /\ SubSeq(exch.orders, Len(exch.orders) - 1, Len(exch.orders))
                  = DependentOrders
           /\ Len(exch.orders) = IF cfg.market_orders_cycle_start THEN 2 ELSE 3

\* The read failed after an entry that was executed away from the quoted
\* price, and the orders on the book are those of the estimate.
C33_FallbackAfterSlippage ==
    /\ did = [op |-> "place_initial_entry", fault |-> "positions_again"]
    /\ EntryLeg.contracts # 0
    /\ EntryLeg.entry # quote.price
    /\ exch.orders[1].price
           = PriceToTick(TakeProfitPrice(quote.price, quote.side,
                                         CalculateRange(cfg, 0)))

\* The read showed the position of an entry executed away from the quoted
\* price, and the take-profit is priced from the position.
C33_ActualAfterSlippage ==
    /\ did = [op |-> "place_initial_entry", fault |-> "none"]
    /\ EntryLeg.contracts # 0
    /\ EntryLeg.entry # quote.price
    /\ exch.orders[1].price
           = PriceToTick(TakeProfitPrice(EntryLeg.entry, quote.side,
                                         CalculateRange(cfg, 0)))
    /\ exch.orders[1].price
           # PriceToTick(TakeProfitPrice(quote.price, quote.side,
                                         CalculateRange(cfg, 0)))

----------------------------------------------------------------------------
(* The orchestrator against an exchange that fails to quote the price.     *)

MonitorSnapshotUnquoted == MonitorSnapshotOn("ticker")

PollingPassQuoted == PollingPassOn("none")

PollingPassUnquoted == PollingPassOn("ticker")

NextQuotes ==
    \/ StartCycle
    \/ StartMonitor
    \/ MonitorSnapshot
    \/ MonitorSnapshotUnquoted
    \/ StreamFails
    \/ PollingPassQuoted
    \/ PollingPassUnquoted
    \/ Restart
    \/ PriceMove
    \/ ExchangeFillsLimit
    \/ ExchangeTriggersFlip
    \/ ExchangeTriggersStop

SpecQuotes == Init /\ [][NextQuotes]_vars

\* The open leg when exactly one is open, and whether the last price of the
\* market has crossed its flip trigger for the flip count the loop holds.
PriceCrossedTrigger ==
    FlipTriggered(OpenSide, LegOf(World, OpenSide).entry, RInt(exch.price),
                  CalculateRange(cfg, current_flip_count))

\* A monitoring tick in which the price could not be fetched.
UnquotedTick ==
    /\ did' = [op |-> did'.op, fault |-> "ticker"]
    /\ faults' = faults + 1

\* C34: a monitoring tick whose price fetch failed, on a leg whose trigger
\* the market has not crossed, executes nothing and leaves the open orders
\* of the symbol on the book.
C34_NoActionWithoutPrice ==
    [][(UnquotedTick /\ (HasLong # HasShort) /\ ~PriceCrossedTrigger)
          => fills' = fills /\ exch'.orders = exch.orders]_vars

\* C34 on a short leg: the price 0 that stands for the failed fetch is
\* never at or above the trigger of a short, and the tick does nothing.
C34_NoActionOnShort ==
    [][(UnquotedTick /\ HasShort /\ ~HasLong /\ ~PriceCrossedTrigger)
          => fills' = fills /\ exch'.orders = exch.orders]_vars

\* The price of the market is at or past the flip trigger of the one open
\* leg, for the range of flip count n.
TriggerCrossed(n) ==
    /\ active_coin # "none"
    /\ HasLong # HasShort
    /\ \E pr \in {GetDynamicRangeAndPrice(cfg, TickerOf(World), n)} :
           FlipTriggered(OpenSide, LegOf(World, OpenSide).entry, pr.price,
                         pr.range)

\* The executions one trigger is to cause, for flip count n: the close of
\* the whole leg when the cycle stops, else the flip of the next size
\* followed by the cleanup's close of the old leg.
TriggerFills(n) ==
    LET leg  == LegOf(World, OpenSide)
        next == CalculateNextPosition(cfg, n, RMul(Contracts(leg), leg.entry))
        exit == ExitSide(OpenSide)
    IN  IF ShouldStop(next, balance)
        THEN <<Fill(exit, leg.contracts, exch.price)>>
        ELSE <<Fill(exit, ToLots(RDiv(next, RInt(exch.price))), exch.price),
               Fill(exit, leg.contracts, exch.price)>>

\* The executions a handler added to the history.
Added(w) == SubSeq(w.fills, Len(fills) + 1, Len(w.fills))

\* The handler that left w executed the one order of the trigger, and after
\* a flip the one close of the cleanup.
OneOrderFor(w, n) ==
    /\ Len(Added(w)) = Len(TriggerFills(n))
    /\ Added(w)[1] = TriggerFills(n)[1]

\* The flip count start_cycle derives for the check at resume.
ResumeCount == AnalyzePositionState(fills).flip_count

\* The streaming and the polling loop on a crossed trigger.
OneOrderInMonitoring ==
    /\ (pc = "watch" /\ TriggerCrossed(current_flip_count))
          => OneOrderFor(MonitorPositionWebsocket(World, cfg, balance,
                             current_flip_count, "none").w,
                         current_flip_count)
    /\ (pc = "poll" /\ TriggerCrossed(current_flip_count))
          => OneOrderFor(ManageActivePositionPolling(World, cfg, balance,
                             current_flip_count, "none").w,
                         current_flip_count)

\* C35: on a crossed trigger of the one open leg the handler of each path
\* (stream, polling pass, check at resume) executes one market order for
\* the trigger, the flip of the next size or the reduce-only close, and the
\* cleanup's close of the old leg after a flip: no second flip and no close
\* beside a flip.
C35_OneMarketOrderPerTrigger ==
    /\ OneOrderInMonitoring
    /\ (pc = "cycle" /\ TriggerCrossed(ResumeCount))
          => OneOrderFor(ResumePosition(World, cfg, balance, "none").w,
                         ResumeCount)

\* C35 on the two monitoring paths alone.
C35_OneOrderOnStreamAndPolling == OneOrderInMonitoring

----------------------------------------------------------------------------
(* The end of the run loop: an interrupt or a cancellation reaches         *)
(* run_async at any await and its finally clause closes the connection.    *)

\* A close that leaves the connection as it is.
CloseNothing(s) == s

\* BybitClient.close(): the connection of the stream after the call.
Close(s) == "closed"

\* KeyboardInterrupt or the cancellation of the task ends the loop of
\* run_async wherever it is; the stream is as the loop left it.
Interrupt ==
    /\ pc \in {"cycle", "watch_start", "watch", "poll"}
    /\ pc' = "stopping"
    /\ UNCHANGED <<trackerVars, sizingVars, rangeVars, exch, balance,
                   active_coin, current_flip_count, placed, parked, stream,
                   polling, did, faults>>

\* The finally clause of run_async: await self.bybit.close(), after which
\* run() returns and the process exits.
CloseConnection ==
    /\ pc = "stopping"
    /\ stream' = Close(stream)
    /\ pc' = "exited"
    /\ UNCHANGED <<trackerVars, sizingVars, rangeVars, exch, balance,
                   active_coin, current_flip_count, placed, parked, polling,
                   did, faults>>

NextShutdown ==
    \/ StartCycle
    \/ StartMonitor
    \/ MonitorSnapshot
    \/ StreamFails
    \/ PollingPassQuoted
    \/ Interrupt
    \/ CloseConnection
    \/ Restart
    \/ PriceMove
    \/ ExchangeFillsLimit
    \/ ExchangeTriggersFlip
    \/ ExchangeTriggersStop

\* The finally clause runs once the loop has ended: the close is not
\* postponed for ever.
SpecShutdown ==
    InitFaults /\ [][NextShutdown]_vars /\ WF_vars(CloseConnection)

\* C36: the process has exited only with the connection of the stream
\* closed; the run loop that ended is left only by the close (or by the
\* process being started again), and an ended run loop leads to the close.
C36_ClosedBeforeExit ==
    /\ [](pc = "exited" => stream = "closed")
    /\ [][(pc = "stopping" /\ pc' # "stopping")
             => stream' = "closed" /\ pc' \in {"exited", "cycle"}]_vars
    /\ (pc = "stopping" ~> pc # "stopping")

\* The loop was interrupted in the polling pass that followed a failure of
\* the stream, with the position open, and the process has exited.
C36_ExitedFromPolling ==
    /\ pc = "exited"
    /\ stream = "closed"
    /\ polling
    /\ HasLong # HasShort
    /\ active_coin # "none"

\* The amounts of the history are multiples of one lot size larger than the
\* tolerance.
OnLotGrid(fs) ==
    \E lot \in (EPS + 1)..25 : \A i \in DOMAIN fs : fs[i].amount % lot = 0

\* C37: whenever the amounts of the history are multiples of a lot size
\* larger than the tolerance, the state analyze_position_state derives has
\* flip count 0, and so has the replay of the current-cycle slice.
C37_NoFlipCountedOnLotGrid ==
    OnLotGrid(fills)
        => /\ AnalyzePositionState(fills).flip_count = 0
           /\ CountFlips(GetCurrentCycleFills(fills)) = 0
           /\ analysed => derived.flip_count = 0

\* An analysed history on a lot grid whose last fill reverses the side of a
\* position that an earlier fill had reversed already.
C37_TwoReversals ==
    /\ analysed
    /\ OnLotGrid(fills)
    /\ Len(fills) = 3
    /\ IsFlipFill(fills, 2) /\ IsFlipFill(fills, 3)
    /\ derived.in_position
    /\ derived.flip_count = 0

\* C38: whenever a leg is open on the exchange the bot has an active
\* symbol, so that the run loop monitors the position instead of waiting
\* for it to close.
C38_OpenPositionIsOwned ==
    (HasLong \/ HasShort) => active_coin # "none"

\* C38, the wait: a pass of start_cycle without an active symbol that finds
\* a position open changes nothing, on the exchange or in the bot.
C38_StartCycleOnlyWaits ==
    [][(pc = "cycle" /\ active_coin = "none" /\ (HasLong \/ HasShort)
        /\ did'.op = "start_cycle" /\ faults' = faults /\ did' # did)
          => /\ exch' = exch /\ fills' = fills
             /\ active_coin' = "none" /\ pc' = "cycle"]_vars

----------------------------------------------------------------------------
(* The orchestrator with a limit order for the entry                       *)
(* (market_orders_cycle_start = false).                                    *)

InitLimitEntry ==
    /\ IdleTracker
    /\ \E mf \in OrchMaxFlips :
           cfg = [Config(RInt(2), mf, RInt(1), RInt(10), RInt(1))
                      EXCEPT !.market_orders_cycle_start = FALSE]
    /\ call = NoCall
    /\ sizes = <<>>
    /\ quote = NoQuote
    /\ trail = NoTrail
    /\ fetch = NoFetch
    /\ exch = [long |-> NoLeg, short |-> NoLeg, orders |-> <<>>,
               price |-> StartPrice]
    /\ balance \in Balances
    /\ active_coin = "none"
    /\ current_flip_count = 0
    /\ pc = "cycle"
    /\ placed = NoPlacement
    /\ parked = NoBook
    /\ stream = "closed"
    /\ polling = FALSE
    /\ did = NoStep
    /\ faults = 0

\* The prices the market visits while limit entries wait (the start price and
\* one range either way), and the number of orders the book holds: an
\* entry, its take-profit and its flip or stop order.
MarketPrices == {90, 100, 110}
MaxBook == 3

InMarket == exch'.price \in MarketPrices /\ Len(exch'.orders) <= MaxBook

NextLimitEntry ==
    \/ StartCycle /\ InMarket
    \/ StartMonitor /\ InMarket
    \/ MonitorSnapshot /\ InMarket
    \/ Restart /\ InMarket
    \/ PriceMove /\ InMarket
    \/ ExchangeFillsLimit /\ InMarket
    \/ ExchangeTriggersFlip /\ InMarket
    \/ ExchangeTriggersStop /\ InMarket

SpecLimitEntry == InitLimitEntry /\ [][NextLimitEntry]_vars

\* The entry order of a cycle waiting on the book: the one limit order that
\* is not reduce-only.
IsEntryOrder(o) == o.kind = "limit" /\ ~o.reduce_only
EntryWaits == \E i \in DOMAIN exch.orders : IsEntryOrder(exch.orders[i])

\* C39: the monitor does not declare the cycle complete, cancelling the
\* orders of the symbol and clearing it, on a snapshot taken while the
\* entry order of the cycle is still waiting to be filled.
C39_NoCompletionBeforeEntryFills ==
    [][CycleCompletes => ~EntryWaits]_vars

\* C39 with market entries: a cycle declared complete has an execution in
\* the history.
C39_CompletedCycleWasOpen ==
    [][CycleCompletes => fills # <<>>]_vars

====
